---------------------------- MODULE Spec2Model ----------------------------
(* claude-tmux-hop: pane state, reconciliation against the process        *)
(* registry, priority grouping / sorting / cycling, and the dialog        *)
(* heuristic (priority.py, tmux.py, cli.py).                              *)
EXTENDS Integers, Sequences, FiniteSets, TLC

VARIABLES
    inPanes,    \* priority.py: the list of PaneInfo handed to a sorting function
    called,     \* priority.py: which function was applied ("none" before)
    outList,    \* priority.py: the list a function returned
    outGroups,  \* priority.py: the dict group_by_state returned
    content,    \* tmux.py: the text handed to has_active_dialog
    dialog,     \* tmux.py: what has_active_dialog returned (<<>> before the call)
    alive,      \* tmux: the ids of the panes that exist
    hopState,   \* tmux pane option @hop-state of each pane ("" when unset)
    hopTs,      \* tmux pane option @hop-timestamp of each pane ("" when unset)
    running,    \* the panes whose tty runs an interactive claude process
    now,        \* int(time.time())
    current,    \* tmux: the active pane (display-message -p '#{pane_id}')
    previous,   \* tmux global option @hop-previous-pane ("" when unset)
    hopAuto,    \* tmux global option @hop-auto (<<>> when unset)
    hopAutoPriorityOnly,  \* tmux global option @hop-auto-priority-only
    pc,         \* where the stepwise invocation stands ("idle": none in flight)
    inflight,   \* the local variables of the stepwise invocation
    last,       \* what the last invocation was given and what it did
    query       \* the lists one reconciliation of store and registry returned

pureVars == <<inPanes, called, outList, outGroups>>
dialogVars == <<content, dialog>>
storeVars == <<hopState, hopTs>>
envVars == <<alive, running, now>>
navVars == <<current, previous>>
cfgVars == <<hopAuto, hopAutoPriorityOnly>>
stepVars == <<pc, inflight>>
sysVars == <<alive, hopState, hopTs, running, now, current, previous,
             hopAuto, hopAutoPriorityOnly, pc, inflight, last, query>>
vars == <<inPanes, called, outList, outGroups, content, dialog,
          alive, hopState, hopTs, running, now, current, previous,
          hopAuto, hopAutoPriorityOnly, pc, inflight, last, query>>

(* ------------------------------ bounds -------------------------------- *)
MaxPanes == 3        \* longest list of panes handed to a sorting function
MaxStamp == 2        \* timestamps of those panes range over 0..MaxStamp
MaxContent == 7      \* longest text handed to has_active_dialog, in characters
NumPanes == 2        \* tmux panes %1 .. %NumPanes
MaxTime == 1         \* the clock runs over 0..MaxTime

\* the elements of a list
Range(seq) == {seq[i] : i \in 1..Len(seq)}

(* --------------------------- priority.py ------------------------------ *)
STATE_PRIORITY == [waiting |-> 0, idle |-> 1, active |-> 2]

VALID_STATES == <<"waiting", "idle", "active">>

VALID_CYCLE_MODES == <<"priority", "flat">>

\* dict.get(key, default)
PriorityGet(state, default) ==
    IF state \in DOMAIN STATE_PRIORITY THEN STATE_PRIORITY[state] ELSE default

\* tuple comparison a < b of Python (lexicographic, integers)
RECURSIVE TupleLess(_, _)
TupleLess(a, b) ==
    IF a = <<>> THEN b # <<>>
    ELSE IF b = <<>> THEN FALSE
    ELSE IF Head(a) < Head(b) THEN TRUE
    ELSE IF Head(b) < Head(a) THEN FALSE
    ELSE TupleLess(Tail(a), Tail(b))

\* one step of a stable sort: x goes after every element that is not greater
RECURSIVE InsertStable(_, _)
InsertStable(sortedPairs, x) ==
    IF sortedPairs = <<>> THEN <<x>>
    ELSE IF TupleLess(x.key, Head(sortedPairs).key) THEN <<x>> \o sortedPairs
    ELSE <<Head(sortedPairs)>> \o InsertStable(Tail(sortedPairs), x)

RECURSIVE SortPairs(_, _)
SortPairs(pairs, acc) ==
    IF pairs = <<>> THEN acc
    ELSE SortPairs(Tail(pairs), InsertStable(acc, Head(pairs)))

\* sorted(panes, key=...): Python's sort is stable; keys[i] is the key of panes[i]
sorted(panes, keys) ==
    LET pairs == [i \in 1..Len(panes) |-> [key |-> keys[i], pane |-> panes[i]]]
        done == SortPairs(pairs, <<>>)
    IN [i \in 1..Len(done) |-> done[i].pane]

\* group_by_state_loop, but a pane with a foreign state is dropped
RECURSIVE group_by_state_loop_drop(_, _)
group_by_state_loop_drop(panes, groups) ==
    IF panes = <<>> THEN groups
    ELSE LET pane == Head(panes)
         IN IF pane.state \in DOMAIN groups
            THEN group_by_state_loop_drop(Tail(panes),
                     [groups EXCEPT ![pane.state] = Append(@, pane)])
            ELSE group_by_state_loop_drop(Tail(panes), groups)

RECURSIVE group_by_state_loop(_, _)
group_by_state_loop(panes, groups) ==
    IF panes = <<>> THEN groups
    ELSE LET pane == Head(panes)
         IN IF pane.state \in DOMAIN groups
            THEN group_by_state_loop(Tail(panes),
                     [groups EXCEPT ![pane.state] = Append(@, pane)])
            ELSE group_by_state_loop(Tail(panes),
                     [groups EXCEPT !["active"] = Append(@, pane)])

group_by_state(panes) ==
    group_by_state_loop(panes, [waiting |-> <<>>, idle |-> <<>>, active |-> <<>>])

\* sort_within_group, but every group is sorted oldest first
sort_within_group_ascending(panes, state) ==
    sorted(panes, [i \in 1..Len(panes) |-> <<panes[i].timestamp>>])

sort_within_group(panes, state) ==
    IF state = "waiting"
    THEN sorted(panes, [i \in 1..Len(panes) |-> <<panes[i].timestamp>>])
    ELSE sorted(panes, [i \in 1..Len(panes) |-> <<-panes[i].timestamp>>])

\* flat_loop, but each group is put in front of the result so far
RECURSIVE flat_loop_prepend(_, _, _)
flat_loop_prepend(groups, states, result) ==
    IF states = <<>> THEN result
    ELSE LET state == Head(states)
         IN IF groups[state] # <<>>
            THEN flat_loop_prepend(groups, Tail(states),
                           sort_within_group(groups[state], state) \o result)
            ELSE flat_loop_prepend(groups, Tail(states), result)

RECURSIVE flat_loop(_, _, _)
flat_loop(groups, states, result) ==
    IF states = <<>> THEN result
    ELSE LET state == Head(states)
         IN IF groups[state] # <<>>
            THEN flat_loop(groups, Tail(states),
                           result \o sort_within_group(groups[state], state))
            ELSE flat_loop(groups, Tail(states), result)

\* get_cycle_group, but the priority mode falls through to the next tiers
get_cycle_group_fallthrough(panes, mode) ==
    LET groups == group_by_state(panes)
    IN IF mode = "flat"
       THEN flat_loop(groups, <<"waiting", "idle", "active">>, <<>>)
       ELSE sort_within_group(groups["waiting"], "waiting")
            \o sort_within_group(groups["idle"], "idle")
            \o sort_within_group(groups["active"], "active")

get_cycle_group(panes, mode) ==
    LET groups == group_by_state(panes)
    IN IF mode = "flat"
       THEN flat_loop(groups, <<"waiting", "idle", "active">>, <<>>)
       ELSE IF groups["waiting"] # <<>>
            THEN sort_within_group(groups["waiting"], "waiting")
       ELSE IF groups["idle"] # <<>>
            THEN sort_within_group(groups["idle"], "idle")
       ELSE IF groups["active"] # <<>>
            THEN sort_within_group(groups["active"], "active")
       ELSE <<>>

\* sort_key, but a foreign state gets the priority of idle
sort_key_unknown_idle(pane) ==
    LET priority == PriorityGet(pane.state, 1)
        ts == IF pane.state = "waiting" THEN pane.timestamp ELSE -pane.timestamp
    IN <<priority, ts>>

sort_key(pane) ==
    LET priority == PriorityGet(pane.state, 2)
        ts == IF pane.state = "waiting" THEN pane.timestamp ELSE -pane.timestamp
    IN <<priority, ts>>

sort_all_panes(panes) ==
    sorted(panes, [i \in 1..Len(panes) |-> sort_key(panes[i])])


(* ------------------- tmux.py: panes, store and registry --------------- *)
Digits == <<"0", "1", "2", "3", "4", "5", "6", "7", "8", "9">>

\* str(n) of a non-negative integer
RECURSIVE ToStr(_)
ToStr(n) ==
    IF n < 10 THEN Digits[n + 1] ELSE ToStr(n \div 10) \o Digits[(n % 10) + 1]

\* tmux pane ids: "%1", "%2", ...
PaneId(i) == "%" \o ToStr(i)

\* PaneInfo(id, state, timestamp, cwd, session, window)
PaneInfo(id, state, timestamp, cwd, session, window) ==
    [id |-> id, state |-> state, timestamp |-> timestamp,
     cwd |-> cwd, session |-> session, window |-> window]

PaneIds == {PaneId(i) : i \in 1..NumPanes}

\* where tmux hosts each pane: #{session_name}, #{window_index},
\* #{pane_current_path}
SessionOf(i) == IF i = 1 THEN "main" ELSE "work"

WindowOf(i) == i % 2

CwdOf(i) == IF i = 2 THEN "" ELSE "/proj"

\* WAITING_STALE_THRESHOLD: the age in seconds from which a waiting pane is
\* looked at by validate_waiting_panes
WAITING_STALE_THRESHOLD == 3

\* the latest time the clock of any specification shows
LatestTime == WAITING_STALE_THRESHOLD + MaxTime

\* int(text): the value, or ValueError (ok = FALSE)
ParseInt(text) ==
    IF \E n \in 0..LatestTime : ToStr(n) = text
    THEN [ok |-> TRUE, value |-> CHOOSE n \in 0..LatestTime : ToStr(n) = text]
    ELSE [ok |-> FALSE, value |-> 0]

\* list-panes -a -F "#{pane_id}\t#{@hop-state}\t#{@hop-timestamp}\t
\* #{pane_current_path}\t#{session_name}\t#{window_index}": one line of six
\* fields for each pane that exists, in tmux's order
\* hop_state and hop_timestamp are the pane options at the moment of the query
RECURSIVE ListPanesFrom(_, _, _, _)
ListPanesFrom(i, lines, hop_state, hop_timestamp) ==
    IF i > NumPanes THEN lines
    ELSE IF PaneId(i) \in alive
         THEN ListPanesFrom(i + 1,
                  Append(lines, <<PaneId(i), hop_state[PaneId(i)],
                                  hop_timestamp[PaneId(i)],
                                  CwdOf(i), SessionOf(i), ToStr(WindowOf(i))>>),
                  hop_state, hop_timestamp)
         ELSE ListPanesFrom(i + 1, lines, hop_state, hop_timestamp)

ListPanes == ListPanesFrom(1, <<>>, hopState, hopTs)

\* set-option -p -t pane @hop-state state; set-option -p -t pane
\* @hop-timestamp str(int(time.time()))
set_pane_state(state, pane_id) ==
    /\ hopState' = [hopState EXCEPT ![pane_id] = state]
    /\ hopTs' = [hopTs EXCEPT ![pane_id] = ToStr(now)]

\* set-option -p -t pane -u @hop-state; set-option -p -t pane -u @hop-timestamp
clear_pane_state(pane_id) ==
    /\ hopState' = [hopState EXCEPT ![pane_id] = ""]
    /\ hopTs' = [hopTs EXCEPT ![pane_id] = ""]

\* for pane in panes: clear_pane_state(pane.id), on one of the two options
RECURSIVE clear_each(_, _)
clear_each(panes, option) ==
    IF panes = <<>> THEN option
    ELSE clear_each(Tail(panes), [option EXCEPT ![Head(panes).id] = ""])

\* the panes list-panes shows whose tty runs an interactive claude
RECURSIVE claude_panes_from(_, _)
claude_panes_from(lines, panes) ==
    IF lines = <<>> THEN panes
    ELSE LET parts == Head(lines)
         IN IF parts[1] \in running
            THEN claude_panes_from(Tail(lines),
                     Append(panes, [id |-> parts[1], cwd |-> parts[4],
                                    session |-> parts[5],
                                    window |-> IF parts[6] # ""
                                               THEN ParseInt(parts[6]).value ELSE 0]))
            ELSE claude_panes_from(Tail(lines), panes)

get_claude_panes_by_process == claude_panes_from(ListPanes, <<>>)

get_running_claude_pane_ids ==
    {get_claude_panes_by_process[i].id : i \in 1..Len(get_claude_panes_by_process)}

\* the loop of get_hop_panes, but a pane is skipped only when it has neither
\* a state nor a timestamp
RECURSIVE hop_panes_from_stamped(_, _, _, _)
hop_panes_from_stamped(lines, validate, running_pane_ids, panes) ==
    IF lines = <<>> THEN panes
    ELSE LET parts == Head(lines)
             ts == IF parts[3] # "" THEN ParseInt(parts[3]) ELSE [ok |-> TRUE, value |-> 0]
             win == IF parts[6] # "" THEN ParseInt(parts[6]) ELSE [ok |-> TRUE, value |-> 0]
             parsed == ts.ok /\ win.ok
         IN IF parts[2] = "" /\ parts[3] = ""
            THEN hop_panes_from_stamped(Tail(lines), validate, running_pane_ids, panes)
            ELSE IF validate /\ parts[1] \notin running_pane_ids
                 THEN hop_panes_from_stamped(Tail(lines), validate, running_pane_ids, panes)
            ELSE hop_panes_from_stamped(Tail(lines), validate, running_pane_ids,
                     Append(panes,
                            PaneInfo(parts[1], parts[2],
                                     IF parsed THEN ts.value ELSE 0,
                                     parts[4], parts[5],
                                     IF parsed THEN win.value ELSE 0)))

\* the loop of get_hop_panes over the lines of list-panes
RECURSIVE hop_panes_from(_, _, _, _)
hop_panes_from(lines, validate, running_pane_ids, panes) ==
    IF lines = <<>> THEN panes
    ELSE LET parts == Head(lines)
             pane_id == parts[1]
             state == parts[2]
             timestamp_str == parts[3]
             window_str == parts[6]
             ts == IF timestamp_str # "" THEN ParseInt(timestamp_str)
                                         ELSE [ok |-> TRUE, value |-> 0]
             win == IF window_str # "" THEN ParseInt(window_str)
                                       ELSE [ok |-> TRUE, value |-> 0]
             parsed == ts.ok /\ win.ok
         IN IF state = "" THEN hop_panes_from(Tail(lines), validate, running_pane_ids, panes)
            ELSE IF validate /\ pane_id \notin running_pane_ids
                 THEN hop_panes_from(Tail(lines), validate, running_pane_ids, panes)
            ELSE hop_panes_from(Tail(lines), validate, running_pane_ids,
                     Append(panes,
                            PaneInfo(pane_id, state,
                                     IF parsed THEN ts.value ELSE 0,
                                     parts[4], parts[5],
                                     IF parsed THEN win.value ELSE 0)))

\* get_hop_panes, but the registry is never consulted
get_hop_panes_unvalidated(validate) ==
    hop_panes_from(ListPanes, FALSE, {}, <<>>)

get_hop_panes(validate) ==
    hop_panes_from(ListPanes, validate,
                   IF validate THEN get_running_claude_pane_ids ELSE {}, <<>>)

\* get_hop_panes(validate) called once the options hold hop_state and
\* hop_timestamp
get_hop_panes_after(validate, hop_state, hop_timestamp) ==
    hop_panes_from(ListPanesFrom(1, <<>>, hop_state, hop_timestamp), validate,
                   IF validate THEN get_running_claude_pane_ids ELSE {}, <<>>)

\* [p for p in all_hop_panes if p.id not in running_pane_ids]
RECURSIVE not_running(_, _)
not_running(panes, running_pane_ids) ==
    IF panes = <<>> THEN <<>>
    ELSE IF Head(panes).id \notin running_pane_ids
         THEN <<Head(panes)>> \o not_running(Tail(panes), running_pane_ids)
         ELSE not_running(Tail(panes), running_pane_ids)

\* get_stale_panes, but every pane with a state counts as stale
get_stale_panes_all == get_hop_panes(FALSE)

get_stale_panes == not_running(get_hop_panes(FALSE), get_running_claude_pane_ids)

(* ------------------- tmux.py: dialog detection ------------------------ *)
\* Text is a sequence of one-character strings.  ">" stands for the prompt
\* glyph U+276F and "-" for the box-drawing glyph U+2500.
PROMPT_CHAR == ">"

STATUS_SEPARATOR == "-"

NEWLINE == "\n"

Whitespace == {" ", NEWLINE}

\* str.strip(): leading and trailing whitespace removed
RECURSIVE LStrip(_)
LStrip(text) ==
    IF text # <<>> /\ Head(text) \in Whitespace THEN LStrip(Tail(text)) ELSE text

RECURSIVE RStrip(_)
RStrip(text) ==
    IF text # <<>> /\ text[Len(text)] \in Whitespace
    THEN RStrip(SubSeq(text, 1, Len(text) - 1))
    ELSE text

Strip(text) == RStrip(LStrip(text))

\* str.splitlines(): the lines without their line ends; a final line end
\* does not open another line
RECURSIVE SplitLinesFrom(_, _, _)
SplitLinesFrom(text, line, lines) ==
    IF text = <<>>
    THEN IF line = <<>> THEN lines ELSE Append(lines, line)
    ELSE IF Head(text) = NEWLINE
         THEN SplitLinesFrom(Tail(text), <<>>, Append(lines, line))
         ELSE SplitLinesFrom(Tail(text), Append(line, Head(text)), lines)

SplitLines(text) == SplitLinesFrom(text, <<>>, <<>>)

\* str.startswith(prefix)
StartsWith(text, prefix) ==
    Len(text) >= Len(prefix) /\ SubSeq(text, 1, Len(prefix)) = prefix

_is_separator_line(stripped) ==
    stripped # <<>> /\ \A i \in 1..Len(stripped) : stripped[i] = STATUS_SEPARATOR

\* dialog_scan, but only a line that is the prompt glyph alone counts as the
\* input prompt
RECURSIVE dialog_scan_bare_prompt(_, _, _)
dialog_scan_bare_prompt(lines, i, found_separator) ==
    IF i < 1 THEN TRUE
    ELSE LET stripped == Strip(lines[i])
         IN IF stripped = <<>> THEN dialog_scan_bare_prompt(lines, i - 1, found_separator)
            ELSE IF _is_separator_line(stripped)
                 THEN dialog_scan_bare_prompt(lines, i - 1, TRUE)
            ELSE IF found_separator
                 THEN IF stripped = <<PROMPT_CHAR>> THEN FALSE ELSE TRUE
            ELSE dialog_scan_bare_prompt(lines, i - 1, found_separator)

\* the loop of has_active_dialog, but running out of lines above a separator
\* counts as the dialog being dismissed
RECURSIVE dialog_scan_dismissed_at_top(_, _, _)
dialog_scan_dismissed_at_top(lines, i, found_separator) ==
    IF i < 1 THEN ~found_separator
    ELSE LET stripped == Strip(lines[i])
         IN IF stripped = <<>>
            THEN dialog_scan_dismissed_at_top(lines, i - 1, found_separator)
            ELSE IF _is_separator_line(stripped)
                 THEN dialog_scan_dismissed_at_top(lines, i - 1, TRUE)
            ELSE IF found_separator
                 THEN IF \/ stripped = <<PROMPT_CHAR>>
                         \/ StartsWith(stripped, <<PROMPT_CHAR, " ">>)
                      THEN FALSE
                      ELSE TRUE
            ELSE dialog_scan_dismissed_at_top(lines, i - 1, found_separator)

\* the loop of has_active_dialog over reversed(lines), from line i downwards;
\* TRUE stands for falling out of the loop (or break), FALSE for return False
RECURSIVE dialog_scan(_, _, _)
dialog_scan(lines, i, found_separator) ==
    IF i < 1 THEN TRUE
    ELSE LET stripped == Strip(lines[i])
         IN IF stripped = <<>> THEN dialog_scan(lines, i - 1, found_separator)
            ELSE IF _is_separator_line(stripped) THEN dialog_scan(lines, i - 1, TRUE)
            ELSE IF found_separator
                 THEN IF \/ stripped = <<PROMPT_CHAR>>
                         \/ StartsWith(stripped, <<PROMPT_CHAR, " ">>)
                      THEN FALSE
                      ELSE TRUE
            ELSE dialog_scan(lines, i - 1, found_separator)

\* has_active_dialog, but the scan starts as if a separator had been seen
has_active_dialog_no_separator(text) ==
    IF text = <<>> \/ Strip(text) = <<>>
    THEN TRUE
    ELSE LET lines == SplitLines(text)
         IN dialog_scan(lines, Len(lines), TRUE)

has_active_dialog(text) ==
    IF text = <<>> \/ Strip(text) = <<>>
    THEN TRUE
    ELSE LET lines == SplitLines(text)
         IN dialog_scan(lines, Len(lines), FALSE)

(* ------------------- tmux.py: options and navigation ------------------ *)
\* get_global_option(name, default), given the value tmux prints for name
get_global_option(value, default) == IF value # <<>> THEN value ELSE default

\* An option value is a sequence of pieces: words, "," and " ".
\* str.split(","): the items between the commas
RECURSIVE SplitCommaFrom(_, _, _)
SplitCommaFrom(text, item, items) ==
    IF text = <<>> THEN Append(items, item)
    ELSE IF Head(text) = ","
         THEN SplitCommaFrom(Tail(text), <<>>, Append(items, item))
         ELSE SplitCommaFrom(Tail(text), Append(item, Head(text)), items)

SplitComma(text) == SplitCommaFrom(text, <<>>, <<>>)

\* str.lower() of one piece
LowerPiece(piece) ==
    CASE piece = "IDLE" -> "idle"
      [] piece = "OFF" -> "off"
      [] piece = "Waiting" -> "waiting"
      [] OTHER -> piece

\* the text of an item, lowered: its pieces joined
RECURSIVE LowerJoin(_)
LowerJoin(item) ==
    IF item = <<>> THEN "" ELSE LowerPiece(Head(item)) \o LowerJoin(Tail(item))

\* {s.strip().lower() for s in value.split(",") if s.strip()}
parse_state_set(value) ==
    {LowerJoin(Strip(SplitComma(value)[i])) :
        i \in {j \in 1..Len(SplitComma(value)) : Strip(SplitComma(value)[j]) # <<>>}}

\* switch_to_pane(pane_id, target_session, ...): target_session "" stands for
\* None.  The previous-pane pointer is written first; without a session the
\* pane is looked up, and a pane that is not found is not navigated to.
switch_to_pane_found(pane_id, target_session) ==
    target_session # "" \/ pane_id \in alive

switch_to_pane(pane_id, target_session) ==
    /\ previous' = IF current # "" /\ current # pane_id THEN current ELSE previous
    /\ current' = IF switch_to_pane_found(pane_id, target_session)
                  THEN pane_id ELSE current

(* ------------------- applying the functions of priority.py ------------ *)
\* state values a pane record can carry: the three known ones and a foreign one
SortStates == {"waiting", "idle", "active", "paused"}

\* the lists of the unit tests' shape: pane i of the list has id %i
PaneLists ==
    UNION {
        { [i \in 1..n |-> PaneInfo(PaneId(i), f[i][1], f[i][2], "/proj", "main", 0)]
            : f \in [1..n -> SortStates \X (0..MaxStamp)] }
        : n \in 0..MaxPanes }

NotCalled == [fn |-> "none", arg |-> ""]

NoGroups == [waiting |-> <<>>, idle |-> <<>>, active |-> <<>>]

PureIdle ==
    /\ inPanes = <<>>
    /\ called = NotCalled
    /\ outList = <<>>
    /\ outGroups = NoGroups

DialogIdle ==
    /\ content = <<>>
    /\ dialog = <<>>

\* the system part of the state while only a pure function is exercised
SysIdle ==
    /\ alive = {}
    /\ hopState = [p \in PaneIds |-> ""]
    /\ hopTs = [p \in PaneIds |-> ""]
    /\ running = {}
    /\ now = 0
    /\ current = ""
    /\ previous = ""
    /\ hopAuto = <<>>
    /\ hopAutoPriorityOnly = <<>>
    /\ pc = "idle"
    /\ inflight = <<>>
    /\ last = [cmd |-> "none"]
    /\ query = [done |-> FALSE]

InitSort ==
    /\ inPanes \in PaneLists
    /\ called = NotCalled
    /\ outList = <<>>
    /\ outGroups = NoGroups
    /\ DialogIdle
    /\ SysIdle

CallGroupByState ==
    /\ called = NotCalled
    /\ called' = [fn |-> "group_by_state", arg |-> ""]
    /\ outGroups' = group_by_state(inPanes)
    /\ UNCHANGED <<inPanes, outList, dialogVars, sysVars>>

CallSortWithinGroup ==
    /\ called = NotCalled
    /\ \E state \in SortStates :
        /\ called' = [fn |-> "sort_within_group", arg |-> state]
        /\ outList' = sort_within_group(inPanes, state)
    /\ UNCHANGED <<inPanes, outGroups, dialogVars, sysVars>>

CallGetCycleGroup ==
    /\ called = NotCalled
    /\ \E mode \in {"priority", "flat"} :
        /\ called' = [fn |-> "get_cycle_group", arg |-> mode]
        /\ outList' = get_cycle_group(inPanes, mode)
    /\ UNCHANGED <<inPanes, outGroups, dialogVars, sysVars>>

CallSortAllPanes ==
    /\ called = NotCalled
    /\ called' = [fn |-> "sort_all_panes", arg |-> ""]
    /\ outList' = sort_all_panes(inPanes)
    /\ UNCHANGED <<inPanes, outGroups, dialogVars, sysVars>>

NextSort ==
    \/ CallGroupByState
    \/ CallSortWithinGroup
    \/ CallGetCycleGroup
    \/ CallSortAllPanes

SpecSort == InitSort /\ [][NextSort]_vars

(* ------------------- applying has_active_dialog ----------------------- *)
Glyphs == {" ", NEWLINE, STATUS_SEPARATOR, PROMPT_CHAR, "x"}

Contents == UNION {[1..n -> Glyphs] : n \in 0..MaxContent}

InitDialog ==
    /\ content \in Contents
    /\ dialog = <<>>
    /\ PureIdle
    /\ SysIdle

CallHasActiveDialog ==
    /\ dialog = <<>>
    /\ dialog' = <<has_active_dialog(content)>>
    /\ UNCHANGED <<content, pureVars, sysVars>>

NextDialog == CallHasActiveDialog

SpecDialog == InitDialog /\ [][NextDialog]_vars

(* ------------------- applying the store functions of tmux.py ---------- *)
NoInvocation ==
    [cmd |-> "none", rc |-> 0, pane |-> "", arg |-> "", cur |-> "", group |-> <<>>,
     target |-> "", listed |-> <<>>, reported |-> {}, queries |-> 0,
     in_tmux |-> TRUE, dry_run |-> FALSE, force |-> FALSE, pruned |-> {},
     registered |-> {}, flipped |-> {}]

NotQueried == [done |-> FALSE, validated |-> <<>>, stale |-> <<>>, unvalidated |-> <<>>]

\* values the options of a pane can hold when anything may have written them
StoreStates == {"", "waiting", "paused"}

StoreStamps == {"", "soon", ToStr(MaxTime)}

InitStore ==
    /\ alive = PaneIds
    /\ hopState \in [PaneIds -> StoreStates]
    /\ hopTs \in [PaneIds -> StoreStamps]
    /\ running \in SUBSET PaneIds
    /\ now = MaxTime
    /\ current = PaneId(1)
    /\ previous = ""
    /\ hopAuto = <<>>
    /\ hopAutoPriorityOnly = <<>>
    /\ pc = "idle"
    /\ inflight = <<>>
    /\ last = NoInvocation
    /\ query = NotQueried
    /\ PureIdle
    /\ DialogIdle

\* get_hop_panes(validate=True), get_stale_panes() and
\* get_hop_panes(validate=False) on one snapshot of store and registry
CallReconcile ==
    /\ ~query.done
    /\ query' = [done |-> TRUE,
                 validated |-> get_hop_panes(TRUE),
                 stale |-> get_stale_panes,
                 unvalidated |-> get_hop_panes(FALSE)]
    /\ UNCHANGED <<storeVars, envVars, navVars, cfgVars, stepVars, last, pureVars, dialogVars>>

CallClearPaneState ==
    /\ \E pane_id \in alive :
        /\ clear_pane_state(pane_id)
        /\ last' = [NoInvocation EXCEPT !.cmd = "clear_pane_state", !.pane = pane_id]
    /\ query' = NotQueried
    /\ UNCHANGED <<envVars, navVars, cfgVars, stepVars, pureVars, dialogVars>>

NextStore ==
    \/ CallReconcile
    \/ CallClearPaneState

SpecStore == InitStore /\ [][NextStore]_vars

(* ------------------------------- cli.py ------------------------------- *)
\* should_auto_hop(new_state), tmux_pane being os.environ.get("TMUX_PANE")
\* ("" when it is not set): whether it gets as far as asking for the panes
auto_hop_checks_priority(new_state, tmux_pane) ==
    /\ get_global_option(hopAuto, <<>>) # <<>>
    /\ new_state \in parse_state_set(get_global_option(hopAuto, <<>>))
    /\ LowerJoin(get_global_option(hopAutoPriorityOnly, <<"on">>)) # "off"
    /\ tmux_pane # ""

\* how many times get_claude_panes_by_process() runs inside one call of
\* get_hop_panes(validate): "get_running_claude_pane_ids() if validate else None"
get_hop_panes_queries(validate) == IF validate THEN 1 ELSE 0

\* get_stale_panes() with get_hop_panes(validate=True) inside
get_stale_panes_queries_validated == 1 + get_hop_panes_queries(TRUE)

\* ... inside one call of get_stale_panes(): get_running_claude_pane_ids(),
\* then get_hop_panes(validate=False)
get_stale_panes_queries == 1 + get_hop_panes_queries(FALSE)

\* ... inside one call of should_auto_hop(new_state)
should_auto_hop_queries(new_state, tmux_pane) ==
    IF auto_hop_checks_priority(new_state, tmux_pane)
    THEN get_hop_panes_queries(TRUE) ELSE 0

\* should_auto_hop, but a state of the trigger set always hops
should_auto_hop_ungated(new_state, tmux_pane, hop_state, hop_timestamp) ==
    /\ get_global_option(hopAuto, <<>>) # <<>>
    /\ new_state \in parse_state_set(get_global_option(hopAuto, <<>>))

\* should_auto_hop(new_state), called once the pane options hold hop_state and
\* hop_timestamp
should_auto_hop(new_state, tmux_pane, hop_state, hop_timestamp) ==
    LET auto_states_str == get_global_option(hopAuto, <<>>)
        auto_states == parse_state_set(auto_states_str)
        priority_only == LowerJoin(get_global_option(hopAutoPriorityOnly, <<"on">>)) # "off"
        new_priority == PriorityGet(new_state, 2)
    IN IF auto_states_str = <<>> THEN FALSE
       ELSE IF new_state \notin auto_states THEN FALSE
       ELSE IF priority_only
            THEN IF tmux_pane = "" THEN TRUE
                 ELSE LET panes == get_hop_panes_after(TRUE, hop_state, hop_timestamp)
                      IN ~ \E i \in 1..Len(panes) :
                               /\ panes[i].id # tmux_pane
                               /\ PriorityGet(panes[i].state, 2) <= new_priority
       ELSE TRUE

\* the pane a pane option command without -t acts on
default_target(tmux_pane) == IF tmux_pane # "" THEN tmux_pane ELSE current

\* "if not is_in_tmux()", but every command takes it silently and returns 0
not_in_tmux_silent(cmd, rc) ==
    /\ last' = [NoInvocation EXCEPT !.cmd = cmd, !.rc = 0, !.in_tmux = FALSE]
    /\ UNCHANGED <<storeVars, navVars>>

\* "if not is_in_tmux(): return rc": nothing is read and nothing is written
not_in_tmux(cmd, rc) ==
    /\ last' = [NoInvocation EXCEPT !.cmd = cmd, !.rc = rc, !.in_tmux = FALSE]
    /\ UNCHANGED <<storeVars, navVars>>

CmdRegister ==
    \/ not_in_tmux("register", 0)
    \/ \E tmux_pane \in alive \cup {""}, state \in Range(VALID_STATES) :
        LET pane_id == default_target(tmux_pane)
            hop_state == [hopState EXCEPT ![pane_id] = state]
            hop_timestamp == [hopTs EXCEPT ![pane_id] = ToStr(now)]
            hop == /\ should_auto_hop(state, tmux_pane, hop_state, hop_timestamp)
                   /\ tmux_pane # ""
            asked == auto_hop_checks_priority(state, tmux_pane)
        IN /\ set_pane_state(state, pane_id)
           /\ IF hop THEN switch_to_pane(tmux_pane, "") ELSE UNCHANGED navVars
           /\ last' = [NoInvocation EXCEPT
                         !.cmd = "register", !.pane = tmux_pane, !.arg = state,
                         !.target = IF hop THEN tmux_pane ELSE "",
                         !.queries = should_auto_hop_queries(state, tmux_pane),
                         !.reported = IF asked THEN get_running_claude_pane_ids ELSE {}]

CmdClear ==
    \/ not_in_tmux("clear", 0)
    \/ \E tmux_pane \in alive \cup {""} :
        /\ clear_pane_state(default_target(tmux_pane))
        /\ last' = [NoInvocation EXCEPT !.cmd = "clear", !.pane = tmux_pane]
        /\ UNCHANGED navVars

\* cmd_cycle, lines 208-213, but the last pane of the group has no successor
cycle_next_idx_nowrap(ids, cur) ==
    IF \E i \in 1..Len(ids) : ids[i] = cur
    THEN LET idx == CHOOSE i \in 1..Len(ids) :
                        ids[i] = cur /\ \A j \in 1..(i - 1) : ids[j] # cur
         IN IF idx < Len(ids) THEN idx + 1 ELSE idx
    ELSE 1

\* cmd_cycle, lines 208-213: idx = ids.index(current); (idx + 1) % len(ids),
\* or 0 when current is not in ids.  Positions count from 1 here.
cycle_next_idx(ids, cur) ==
    IF \E i \in 1..Len(ids) : ids[i] = cur
    THEN LET idx == CHOOSE i \in 1..Len(ids) :
                        ids[i] = cur /\ \A j \in 1..(i - 1) : ids[j] # cur
         IN (idx % Len(ids)) + 1
    ELSE 1

\* cmd_cycle from "if not panes" on: what it finds and where it goes, panes
\* being the list read after the pruning
cycle_select(panes, mode, pane_arg) ==
    LET group == IF panes = <<>> THEN <<>> ELSE get_cycle_group(panes, mode)
        cur == IF pane_arg # "" THEN pane_arg ELSE current
        ids == [i \in 1..Len(group) |-> group[i].id]
    IN [group |-> ids, cur |-> cur,
        target |-> IF group = <<>> THEN "" ELSE ids[cycle_next_idx(ids, cur)],
        session |-> IF group = <<>> THEN ""
                    ELSE group[cycle_next_idx(ids, cur)].session]

\* cmd_cycle from "current = ..." on, and what the invocation leaves to observe
cycle_finish(sel, pane_arg, mode, reported, pruned) ==
    /\ IF sel.target # "" THEN switch_to_pane(sel.target, sel.session)
                          ELSE UNCHANGED navVars
    /\ last' = [NoInvocation EXCEPT
                  !.cmd = "cycle", !.pane = pane_arg, !.arg = mode,
                  !.cur = sel.cur, !.group = sel.group, !.target = sel.target,
                  !.queries = get_stale_panes_queries + get_hop_panes_queries(FALSE),
                  !.reported = reported, !.pruned = pruned]

CmdCycle ==
    \/ not_in_tmux("cycle", 1)
    \/ \E pane_arg \in alive \cup {""}, mode \in Range(VALID_CYCLE_MODES) :
        LET stale == get_stale_panes
            hop_state == clear_each(stale, hopState)
            hop_timestamp == clear_each(stale, hopTs)
            panes == get_hop_panes_after(FALSE, hop_state, hop_timestamp)
        IN /\ hopState' = hop_state
           /\ hopTs' = hop_timestamp
           /\ cycle_finish(cycle_select(panes, mode, pane_arg), pane_arg, mode,
                           get_running_claude_pane_ids,
                           {stale[i].id : i \in 1..Len(stale)})

\* cmd_list and cmd_picker_data print the validated panes in sort_all_panes order
listing(cmd) ==
    \/ not_in_tmux(cmd, 1)
    \/ LET panes == get_hop_panes(TRUE)
           sorted_panes == sort_all_panes(panes)
       IN /\ last' = [NoInvocation EXCEPT
                        !.cmd = cmd,
                        !.listed = [i \in 1..Len(sorted_panes) |-> sorted_panes[i].id],
                        !.queries = get_hop_panes_queries(TRUE),
                        !.reported = get_running_claude_pane_ids]
          /\ UNCHANGED <<storeVars, navVars>>

CmdList == listing("list")

CmdPickerData == listing("picker-data")

\* cmd_back, but it navigates with store_previous=False
back_outcome_keep_pointer(cur, previous_pane) ==
    LET success == switch_to_pane_found(previous_pane, "")
    IN [current |-> IF success THEN previous_pane ELSE cur,
        previous |-> previous_pane,
        target |-> previous_pane,
        rc |-> IF previous_pane = "" \/ success THEN 0 ELSE 1]

\* cmd_back inside tmux, cur being the pane in focus and previous_pane the
\* value of @hop-previous-pane: where the focus and the pointer end up.
\* switch_to_pane stores the pointer before it looks the pane up; when the
\* pane is not found cmd_back unsets the pointer.
back_outcome(cur, previous_pane) ==
    LET success == switch_to_pane_found(previous_pane, "")
    IN IF previous_pane = ""
       THEN [current |-> cur, previous |-> previous_pane, target |-> "", rc |-> 0]
       ELSE [current |-> IF success THEN previous_pane ELSE cur,
             previous |-> IF ~success THEN ""
                          ELSE IF cur # "" /\ cur # previous_pane
                               THEN cur ELSE previous_pane,
             target |-> previous_pane,
             rc |-> IF success THEN 0 ELSE 1]

\* cmd_back: the pane @hop-previous-pane names, if it still exists
CmdBack ==
    \/ not_in_tmux("back", 1)
    \/ LET out == back_outcome(current, previous)
       IN /\ current' = out.current
          /\ previous' = out.previous
          /\ last' = [NoInvocation EXCEPT
                        !.cmd = "back", !.cur = current, !.target = out.target,
                        !.rc = out.rc]
          /\ UNCHANGED storeVars

\* cmd_switch: switch_to_pane(args.pane), 0 if it found the pane
CmdSwitch ==
    \/ not_in_tmux("switch", 1)
    \/ \E pane \in PaneIds :
        /\ switch_to_pane(pane, "")
        /\ last' = [NoInvocation EXCEPT
                      !.cmd = "switch", !.arg = pane, !.cur = current,
                      !.target = IF switch_to_pane_found(pane, "") THEN pane ELSE "",
                      !.rc = IF switch_to_pane_found(pane, "") THEN 0 ELSE 1]
        /\ UNCHANGED storeVars

\* cmd_picker: the validated panes are put on a popup or a menu; what the user
\* picks there is carried out by tmux or by a later invocation of switch
CmdPicker ==
    \/ not_in_tmux("picker", 1)
    \/ LET panes == get_hop_panes(TRUE)
           sorted_panes == sort_all_panes(panes)
       IN /\ last' = [NoInvocation EXCEPT
                        !.cmd = "picker",
                        !.listed = [i \in 1..Len(sorted_panes) |-> sorted_panes[i].id],
                        !.queries = get_hop_panes_queries(TRUE),
                        !.reported = get_running_claude_pane_ids]
          /\ UNCHANGED <<storeVars, navVars>>

\* has_hop_state, but no pane is ever seen as registered
has_hop_state_never(pane_id) == FALSE

\* has_hop_state(pane_id): bool of the pane's @hop-state
has_hop_state(pane_id) == hopState[pane_id] # ""

\* set_pane_state("idle", pane_id) for each pane of the list in turn
RECURSIVE set_each_idle(_, _, _)
set_each_idle(ids, option, value) ==
    IF ids = <<>> THEN option
    ELSE set_each_idle(Tail(ids), [option EXCEPT ![Head(ids)] = value], value)

\* cmd_discover, lines 444-449: the panes of the registry the loop does not skip
discover_chosen(force) ==
    SelectSeq([i \in 1..Len(get_claude_panes_by_process) |->
                  get_claude_panes_by_process[i].id],
              LAMBDA pane_id : ~(has_hop_state(pane_id) /\ ~force))

\* cmd_discover, but --dry-run registers as well
discover_writes_anyway(dry_run, chosen, option, value) ==
    set_each_idle(chosen, option, value)

\* cmd_discover, lines 453-456: what becomes of one of the two options
discover_writes(dry_run, chosen, option, value) ==
    IF dry_run THEN option ELSE set_each_idle(chosen, option, value)

\* cmd_prune, but --dry-run clears as well
prune_writes_anyway(dry_run, stale, option) == clear_each(stale, option)

\* cmd_prune, lines 495-498: what becomes of one of the two options
prune_writes(dry_run, stale, option) ==
    IF dry_run THEN option ELSE clear_each(stale, option)

\* cmd_discover: the panes of the registry that have no state, or all of them
\* with --force, are registered as idle
CmdDiscover ==
    \/ not_in_tmux("discover", 1)
    \/ \E dry_run \in BOOLEAN, force \in BOOLEAN :
        LET claude_panes == get_claude_panes_by_process
            chosen == discover_chosen(force)
        IN /\ hopState' = discover_writes(dry_run, chosen, hopState, "idle")
           /\ hopTs' = discover_writes(dry_run, chosen, hopTs, ToStr(now))
           /\ last' = [NoInvocation EXCEPT
                         !.cmd = "discover", !.dry_run = dry_run, !.force = force,
                         !.registered = Range(chosen), !.queries = 1,
                         !.reported = {claude_panes[i].id : i \in 1..Len(claude_panes)}]
           /\ UNCHANGED navVars

\* cmd_prune: the stale panes lose their options, or are only printed
CmdPrune ==
    \/ not_in_tmux("prune", 1)
    \/ \E dry_run \in BOOLEAN :
        LET stale == get_stale_panes
        IN /\ hopState' = prune_writes(dry_run, stale, hopState)
           /\ hopTs' = prune_writes(dry_run, stale, hopTs)
           /\ last' = [NoInvocation EXCEPT
                         !.cmd = "prune", !.dry_run = dry_run,
                         !.pruned = {stale[i].id : i \in 1..Len(stale)},
                         !.queries = get_stale_panes_queries,
                         !.reported = get_running_claude_pane_ids]
           /\ UNCHANGED navVars

(* ---------------------------- environment ----------------------------- *)
Tick ==
    /\ now < MaxTime
    /\ now' = now + 1
    /\ UNCHANGED <<alive, running, storeVars, navVars>>

\* an interactive claude starts or exits in a pane
ProcessStart ==
    /\ \E p \in alive \ running : running' = running \cup {p}
    /\ UNCHANGED <<alive, now, storeVars, navVars>>

ProcessExit ==
    /\ \E p \in running : running' = running \ {p}
    /\ UNCHANGED <<alive, now, storeVars, navVars>>

\* the user moves the focus by hand
SelectPane ==
    /\ \E p \in alive \ {current} : current' = p
    /\ UNCHANGED <<previous, envVars, storeVars>>

Environment ==
    /\ Tick \/ ProcessStart \/ ProcessExit \/ SelectPane
    /\ UNCHANGED last

\* the values of @hop-auto and @hop-auto-priority-only a tmux.conf sets
AutoValues == {<<>>, <<"Waiting", ",", " ", "IDLE", " ">>}

PriorityOnlyValues == {<<>>, <<"OFF">>}

Init ==
    /\ alive = PaneIds
    /\ hopState = [p \in PaneIds |-> ""]
    /\ hopTs = [p \in PaneIds |-> ""]
    /\ running = {}
    /\ now = 0
    /\ current = PaneId(1)
    /\ previous = ""
    /\ hopAuto \in AutoValues
    /\ hopAutoPriorityOnly \in PriorityOnlyValues
    /\ pc = "idle"
    /\ inflight = <<>>
    /\ last = NoInvocation
    /\ query = NotQueried
    /\ PureIdle
    /\ DialogIdle

\* sys.exit(main()): the invocation is over, and what it did has been observed
Return ==
    /\ last.cmd # "none"
    /\ last' = NoInvocation
    /\ UNCHANGED <<storeVars, envVars, navVars>>

\* one invocation of the command line at a time
Command ==
    /\ last.cmd = "none"
    /\ \/ CmdRegister
       \/ CmdClear
       \/ CmdCycle
       \/ CmdBack
       \/ CmdPicker
       \/ CmdList
       \/ CmdPickerData
       \/ CmdDiscover
       \/ CmdPrune
    /\ UNCHANGED envVars

Next ==
    /\ Command \/ Return \/ (last.cmd = "none" /\ Environment)
    /\ UNCHANGED <<cfgVars, stepVars, query, pureVars, dialogVars>>

Spec == Init /\ [][Next]_vars

(* ------------------ cli.py: invocations that interleave ---------------- *)
\* cmd_cycle runs as a process of its own, and so does every hook's register:
\* between two tmux commands of one invocation another invocation may run.
\* pc is the position of the cycle invocation in progress, inflight what it
\* holds in memory.

\* cmd_cycle up to "for pane in get_stale_panes()": the registry and the
\* options are read once
CycleBegin ==
    /\ pc = "idle"
    /\ last.cmd = "none"
    /\ \/ /\ not_in_tmux("cycle", 1)
          /\ UNCHANGED stepVars
       \/ \E pane_arg \in alive \cup {""}, mode \in Range(VALID_CYCLE_MODES) :
           /\ pc' = "pruning"
           /\ inflight' = [stale |-> get_stale_panes, pane |-> pane_arg, mode |-> mode,
                           reported |-> get_running_claude_pane_ids,
                           pruned |-> {get_stale_panes[i].id :
                                          i \in 1..Len(get_stale_panes)}]
           /\ UNCHANGED <<storeVars, navVars, last>>
    /\ UNCHANGED envVars

\* one turn of the loop: clear_pane_state(pane.id)
CyclePrune ==
    /\ pc = "pruning"
    /\ inflight.stale # <<>>
    /\ clear_pane_state(Head(inflight.stale).id)
    /\ inflight' = [inflight EXCEPT !.stale = Tail(inflight.stale)]
    /\ UNCHANGED <<pc, envVars, navVars, last>>

\* cmd_cycle from "panes = get_hop_panes(validate=False)" to its end
CycleSelect ==
    /\ pc = "pruning"
    /\ inflight.stale = <<>>
    /\ cycle_finish(cycle_select(get_hop_panes(FALSE), inflight.mode, inflight.pane),
                    inflight.pane, inflight.mode, inflight.reported, inflight.pruned)
    /\ pc' = "idle"
    /\ inflight' = <<>>
    /\ UNCHANGED <<storeVars, envVars>>

\* a hook registers its pane, whatever the cycle invocation is doing
RegisterConc ==
    /\ last.cmd = "none"
    /\ CmdRegister
    /\ UNCHANGED <<envVars, stepVars>>

ProcessConc ==
    /\ ProcessStart \/ ProcessExit
    /\ UNCHANGED <<last, stepVars>>

ReturnConc ==
    /\ Return
    /\ UNCHANGED stepVars

InitConc ==
    /\ Init
    /\ hopAuto = <<>>
    /\ hopAutoPriorityOnly = <<>>

NextConc ==
    /\ \/ CycleBegin
       \/ CyclePrune
       \/ CycleSelect
       \/ RegisterConc
       \/ ProcessConc
       \/ ReturnConc
    /\ UNCHANGED <<cfgVars, query, pureVars, dialogVars>>

SpecConc == InitConc /\ [][NextConc]_vars

(* ------------------- tmux.py: validate_waiting_panes ------------------- *)

\* set_pane_state with check=True: the tmux command named by raised fails and
\* run_tmux raises RuntimeError there ("none": both commands succeed)
set_pane_state_or_raise(state, pane_id, raised) ==
    /\ hopState' = IF raised = "state" THEN hopState
                   ELSE [hopState EXCEPT ![pane_id] = state]
    /\ hopTs' = IF raised = "none" THEN [hopTs EXCEPT ![pane_id] = ToStr(now)]
                ELSE hopTs

\* capture_pane_content, but a failed capture hands back what is on the screen
capture_pane_content_anyway(screen, ok) == Strip(screen)

\* capture_pane_content(pane_id): what run_tmux returns of the screen, stripped;
\* a capture-pane that fails prints nothing
capture_pane_content(screen, ok) == IF ok THEN Strip(screen) ELSE <<>>

\* validate_waiting_panes, but a pane is passed over by its age alone
validate_skips_by_age(pane, local_now) ==
    (local_now - pane.timestamp) < WAITING_STALE_THRESHOLD

\* the two "continue" at the head of the loop, but the age is not looked at
validate_skips_by_state(pane, local_now) == pane.state # "waiting"

\* the two "continue" at the head of the loop of validate_waiting_panes
validate_skips(pane, local_now) ==
    \/ pane.state # "waiting"
    \/ (local_now - pane.timestamp) < WAITING_STALE_THRESHOLD

\* what the loop body does to the record once set_pane_state returned, but the
\* record is changed when set_pane_state raised as well
validate_mutate_always(pane, local_now, raised) ==
    [pane EXCEPT !.state = "idle", !.timestamp = local_now]

\* pane.state = "idle"; pane.timestamp = now, skipped when set_pane_state raised
validate_mutate(pane, local_now, raised) ==
    IF raised = "none"
    THEN [pane EXCEPT !.state = "idle", !.timestamp = local_now]
    ELSE pane

\* what one turn of the loop leaves to observe
NotCaptured == [captured |-> FALSE, ok |-> FALSE, content |-> <<>>, wrote |-> FALSE,
                raised |-> "none"]

\* what a pane may show: nothing, blanks, the input prompt above the status
\* bar, a dialog above the status bar
Screens ==
    {<<>>, <<" ">>,
     <<PROMPT_CHAR, NEWLINE, STATUS_SEPARATOR>>,
     <<"x", NEWLINE, STATUS_SEPARATOR>>}

\* "now = int(time.time())" with the list a caller read from the options
ValidateBegin ==
    /\ pc = "idle"
    /\ pc' = "validating"
    /\ inflight' = [given |-> get_hop_panes(FALSE), panes |-> get_hop_panes(FALSE),
                    now |-> now, i |-> 1, log |-> <<>>,
                    hop_state |-> hopState, hop_timestamp |-> hopTs]
    /\ UNCHANGED <<storeVars, envVars>>

\* one turn of "for pane in panes"
ValidateStep ==
    /\ pc = "validating"
    /\ inflight.i <= Len(inflight.panes)
    /\ LET pane == inflight.panes[inflight.i]
           turn(entry, record) ==
               inflight' = [inflight EXCEPT !.i = @ + 1,
                                            !.log = Append(@, entry),
                                            !.panes[inflight.i] = record]
       IN IF validate_skips(pane, inflight.now)
          THEN /\ turn(NotCaptured, pane)
               /\ UNCHANGED storeVars
          ELSE \E screen \in Screens, ok \in BOOLEAN :
                 LET text == capture_pane_content(screen, ok)
                     seen == [NotCaptured EXCEPT !.captured = TRUE, !.ok = ok,
                                                 !.content = text]
                 IN IF text = <<>> \/ has_active_dialog(text)
                    THEN /\ turn(seen, pane)
                         /\ UNCHANGED storeVars
                    ELSE \E raised \in {"none", "state", "timestamp"} :
                           /\ set_pane_state_or_raise("idle", pane.id, raised)
                           /\ turn([seen EXCEPT !.wrote = TRUE, !.raised = raised],
                                   validate_mutate(pane, inflight.now, raised))
    /\ UNCHANGED <<pc, envVars>>

\* the loop is over and validate_waiting_panes returns
ValidateReturn ==
    /\ pc = "validating"
    /\ inflight.i > Len(inflight.panes)
    /\ pc' = "validated"
    /\ UNCHANGED <<inflight, storeVars, envVars>>

\* the clock moves on while panes are captured
TickValidate ==
    /\ now < WAITING_STALE_THRESHOLD + MaxTime
    /\ now' = now + 1
    /\ UNCHANGED <<alive, running, storeVars, stepVars>>

\* pane options as register left them at some time in 0..MaxTime
InitValidate ==
    /\ alive = PaneIds
    /\ hopState \in [PaneIds -> {"", "waiting", "idle"}]
    /\ hopTs \in [PaneIds -> {""} \cup {ToStr(t) : t \in 0..MaxTime}]
    /\ \A p \in PaneIds : hopState[p] = "" <=> hopTs[p] = ""
    /\ running = PaneIds
    /\ now = WAITING_STALE_THRESHOLD
    /\ current = PaneId(1)
    /\ previous = ""
    /\ hopAuto = <<>>
    /\ hopAutoPriorityOnly = <<>>
    /\ pc = "idle"
    /\ inflight = <<>>
    /\ last = NoInvocation
    /\ query = NotQueried
    /\ PureIdle
    /\ DialogIdle

NextValidate ==
    /\ ValidateBegin \/ ValidateStep \/ ValidateReturn \/ TickValidate
    /\ UNCHANGED <<navVars, cfgVars, last, query, pureVars, dialogVars>>

SpecValidate == InitValidate /\ [][NextValidate]_vars

(* ------------- cli.py: cmd_cycle again and again ----------------------- *)
\* the key bound to cycle is pressed repeatedly and nothing else happens:
\* inflight holds the mode of the binding and the panes gone to so far
InitCycle ==
    /\ alive = PaneIds
    /\ hopState \in [PaneIds -> {""} \cup Range(VALID_STATES)]
    /\ hopTs \in [PaneIds -> {""} \cup {ToStr(t) : t \in 0..MaxTime}]
    /\ \A p \in PaneIds : hopState[p] = "" <=> hopTs[p] = ""
    /\ running \in SUBSET PaneIds
    /\ now = MaxTime
    /\ current \in PaneIds
    /\ previous = ""
    /\ hopAuto = <<>>
    /\ hopAutoPriorityOnly = <<>>
    /\ pc = "idle"
    /\ inflight \in {[mode |-> m, visited |-> <<>>] : m \in Range(VALID_CYCLE_MODES)}
    /\ last = NoInvocation
    /\ query = NotQueried
    /\ PureIdle
    /\ DialogIdle

\* cycle --mode m, with or without --pane "#{pane_id}" of the pane in focus
CycleAgain ==
    /\ last.cmd = "none"
    /\ Len(inflight.visited) < NumPanes
    /\ CmdCycle
    /\ last'.in_tmux
    /\ last'.arg = inflight.mode
    /\ last'.pane \in {"", current}
    /\ inflight' = [inflight EXCEPT !.visited = Append(@, last'.target)]
    /\ UNCHANGED <<envVars, pc>>

ReturnCycle ==
    /\ Return
    /\ UNCHANGED stepVars

NextCycle ==
    /\ CycleAgain \/ ReturnCycle
    /\ UNCHANGED <<cfgVars, query, pureVars, dialogVars>>

SpecCycle == InitCycle /\ [][NextCycle]_vars

(* ------------- every invocation that writes a state ------------------- *)
\* validate_waiting_panes(get_hop_panes(validate=False)) as one step, every
\* write succeeding: screens tells what each pane shows when it is captured.
\* The panes it turns from waiting to idle.
validate_flipped(screens) ==
    LET panes == get_hop_panes(FALSE)
    IN {panes[i].id : i \in
           {j \in 1..Len(panes) :
               /\ ~validate_skips(panes[j], now)
               /\ capture_pane_content(screens[panes[j].id], TRUE) # <<>>
               /\ ~has_active_dialog(
                      capture_pane_content(screens[panes[j].id], TRUE))}}

CmdValidate ==
    \E screens \in [PaneIds -> {<<PROMPT_CHAR, NEWLINE, STATUS_SEPARATOR>>,
                                 <<"x", NEWLINE, STATUS_SEPARATOR>>}] :
        LET flipped == validate_flipped(screens)
        IN /\ hopState' = [p \in PaneIds |-> IF p \in flipped THEN "idle" ELSE hopState[p]]
           /\ hopTs' = [p \in PaneIds |-> IF p \in flipped THEN ToStr(now) ELSE hopTs[p]]
           /\ last' = [NoInvocation EXCEPT !.cmd = "validate", !.flipped = flipped]
           /\ UNCHANGED navVars

\* the clock, as far as a waiting pane needs to grow stale
TickEngine ==
    /\ now < WAITING_STALE_THRESHOLD
    /\ now' = now + 1
    /\ UNCHANGED <<alive, running, storeVars, navVars>>

NextEngine ==
    /\ \/ /\ last.cmd = "none"
          /\ \/ CmdRegister
             \/ CmdDiscover
             \/ CmdValidate
             \/ CmdClear
             \/ CmdPrune
             \/ CmdCycle
             \/ CmdBack
          /\ UNCHANGED envVars
       \/ Return
       \/ /\ last.cmd = "none"
          /\ TickEngine \/ ProcessStart \/ ProcessExit
          /\ UNCHANGED last
    /\ UNCHANGED <<cfgVars, stepVars, query, pureVars, dialogVars>>

SpecEngine == InitConc /\ [][NextEngine]_vars

(* ------------- cli.py: navigation while panes come and go -------------- *)
\* the commands that move the focus: switch, back, cycle and a register that
\* hops, with panes being closed in between
\* the user closes a pane that is not in focus: it leaves list-panes and its
\* options go with it
KillPane ==
    /\ \E p \in alive \ {current} :
        /\ alive' = alive \ {p}
        /\ running' = running \ {p}
        /\ hopState' = [hopState EXCEPT ![p] = ""]
        /\ hopTs' = [hopTs EXCEPT ![p] = ""]
    /\ UNCHANGED <<now, navVars, last>>

InitNav ==
    /\ alive = PaneIds
    /\ hopState = [p \in PaneIds |-> ""]
    /\ hopTs = [p \in PaneIds |-> ""]
    /\ running = PaneIds
    /\ now = 0
    /\ current \in PaneIds
    /\ previous \in PaneIds \cup {""}
    /\ hopAuto \in AutoValues
    /\ hopAutoPriorityOnly = <<>>
    /\ pc = "idle"
    /\ inflight = <<>>
    /\ last = NoInvocation
    /\ query = NotQueried
    /\ PureIdle
    /\ DialogIdle

NextNav ==
    /\ \/ /\ last.cmd = "none"
          /\ \/ CmdSwitch
             \/ CmdBack
             \/ CmdCycle
             \/ CmdRegister
          /\ UNCHANGED envVars
       \/ Return
       \/ /\ last.cmd = "none"
          /\ SelectPane
          /\ UNCHANGED last
       \/ last.cmd = "none" /\ KillPane
    /\ UNCHANGED <<cfgVars, stepVars, query, pureVars, dialogVars>>

SpecNav == InitNav /\ [][NextNav]_vars

(* ------------- cli.py: cmd_register over any store ---------------------- *)
\* states a pane option can hold when tmux set-option was also used by hand
HopStates == {"", "waiting", "idle", "active", "paused"}

\* @hop-auto: unset, a list with blanks and capitals, separators only, one state
HopAutoValues == AutoValues \cup {<<",", " ", ",">>, <<"active">>}

InitHop ==
    /\ alive = PaneIds
    /\ hopState \in [PaneIds -> HopStates]
    /\ hopTs = [p \in PaneIds |-> IF hopState[p] = "" THEN "" ELSE ToStr(0)]
    /\ running \in SUBSET PaneIds
    /\ now = MaxTime
    /\ current \in PaneIds
    /\ previous = ""
    /\ hopAuto \in HopAutoValues
    /\ hopAutoPriorityOnly \in PriorityOnlyValues
    /\ pc = "idle"
    /\ inflight = <<>>
    /\ last = NoInvocation
    /\ query = NotQueried
    /\ PureIdle
    /\ DialogIdle

RegisterHop ==
    /\ last.cmd = "none"
    /\ CmdRegister
    /\ UNCHANGED envVars

NextHop ==
    /\ RegisterHop \/ Return
    /\ UNCHANGED <<cfgVars, stepVars, query, pureVars, dialogVars>>

SpecHop == InitHop /\ [][NextHop]_vars

(* ------------- cli.py: cmd_prune when tmux commands fail -------------- *)
\* clear_pane_state runs both its commands with check=False: a command named
\* in failed leaves its option as it was and run_tmux raises nothing
clear_pane_state_unchecked(pane_id, failed) ==
    /\ hopState' = IF "state" \in failed THEN hopState
                   ELSE [hopState EXCEPT ![pane_id] = ""]
    /\ hopTs' = IF "timestamp" \in failed THEN hopTs
                ELSE [hopTs EXCEPT ![pane_id] = ""]

\* cmd_prune up to its loop
PruneLoopBegin ==
    /\ pc = "idle"
    /\ pc' = "pruning"
    /\ inflight' = [stale |-> get_stale_panes, i |-> 1, log |-> <<>>, rc |-> -1,
                    hop_state |-> hopState, hop_timestamp |-> hopTs]
    /\ UNCHANGED <<storeVars, envVars>>

\* one turn of "for pane in stale": clear_pane_state(pane.id)
PruneLoopStep ==
    /\ pc = "pruning"
    /\ inflight.i <= Len(inflight.stale)
    /\ \E failed \in SUBSET {"state", "timestamp"} :
        /\ clear_pane_state_unchecked(inflight.stale[inflight.i].id, failed)
        /\ inflight' = [inflight EXCEPT !.i = @ + 1, !.log = Append(@, failed)]
    /\ UNCHANGED <<pc, envVars>>

\* the loop is over, or there was no stale pane: return 0
PruneLoopReturn ==
    /\ pc = "pruning"
    /\ inflight.i > Len(inflight.stale)
    /\ pc' = "pruned"
    /\ inflight' = [inflight EXCEPT !.rc = 0]
    /\ UNCHANGED <<storeVars, envVars>>

\* pane options as register left them, some panes no longer running claude
InitFaults ==
    /\ alive = PaneIds
    /\ hopState \in [PaneIds -> {"", "waiting", "idle"}]
    /\ hopTs \in [PaneIds -> {""} \cup {ToStr(t) : t \in 0..MaxTime}]
    /\ \A p \in PaneIds : hopState[p] = "" <=> hopTs[p] = ""
    /\ running \in SUBSET PaneIds
    /\ now = WAITING_STALE_THRESHOLD
    /\ current = PaneId(1)
    /\ previous = ""
    /\ hopAuto = <<>>
    /\ hopAutoPriorityOnly = <<>>
    /\ pc = "idle"
    /\ inflight = <<>>
    /\ last = NoInvocation
    /\ query = NotQueried
    /\ PureIdle
    /\ DialogIdle

NextFaults ==
    /\ \/ ValidateBegin
       \/ ValidateStep
       \/ ValidateReturn
       \/ PruneLoopBegin
       \/ PruneLoopStep
       \/ PruneLoopReturn
       \/ TickValidate
    /\ UNCHANGED <<navVars, cfgVars, last, query, pureVars, dialogVars>>

SpecFaults == InitFaults /\ [][NextFaults]_vars

(* ------- tmux.py: the tmux commands of set_pane_state, one at a time --- *)
\* set_pane_state and clear_pane_state run two tmux commands each, and every
\* invocation of the command line is a process of its own: between the two
\* commands of one invocation those of another may run.  pc holds where the
\* invocation that sets options and the one that unsets them are, inflight
\* what they hold in memory: the panes still to be written, first the one at
\* hand.
NoWriter ==
    [cmd |-> "none", todo |-> <<>>, state |-> "", timestamp |-> "", old |-> "",
     force |-> FALSE]

NoClearer == [cmd |-> "none", todo |-> <<>>]

\* set_pane_state, but one tmux command sets both options
set_pane_state_first_both(state, pane_id) ==
    /\ hopState' = [hopState EXCEPT ![pane_id] = state]
    /\ hopTs' = [hopTs EXCEPT ![pane_id] = ToStr(now)]

\* set_pane_state, line 139: set-option -p -t pane @hop-state state
set_pane_state_first(state, pane_id) ==
    /\ hopState' = [hopState EXCEPT ![pane_id] = state]
    /\ UNCHANGED hopTs

\* set_pane_state, line 140: set-option -p -t pane @hop-timestamp timestamp,
\* timestamp having been taken before the first command ran
set_pane_state_second(timestamp, pane_id) ==
    /\ hopTs' = [hopTs EXCEPT ![pane_id] = timestamp]
    /\ UNCHANGED hopState

\* clear_pane_state, line 167: set-option -p -t pane -u @hop-state
clear_pane_state_first(pane_id) ==
    /\ hopState' = [hopState EXCEPT ![pane_id] = ""]
    /\ UNCHANGED hopTs

\* clear_pane_state, line 168: set-option -p -t pane -u @hop-timestamp
clear_pane_state_second(pane_id) ==
    /\ hopTs' = [hopTs EXCEPT ![pane_id] = ""]
    /\ UNCHANGED hopState

\* cmd_register up to set_pane_state's first command
RegisterBegin ==
    /\ pc.writer = "idle"
    /\ \E tmux_pane \in alive, state \in Range(VALID_STATES) :
        /\ set_pane_state_first(state, tmux_pane)
        /\ inflight' = [inflight EXCEPT !.writer =
                           [NoWriter EXCEPT
                               !.cmd = "register", !.todo = <<tmux_pane>>,
                               !.state = state, !.timestamp = ToStr(now),
                               !.old = hopTs[tmux_pane]]]
    /\ pc' = [pc EXCEPT !.writer = "state_written"]

\* cmd_discover up to its loop: the registry is asked for its panes
DiscoverBegin ==
    /\ pc.writer = "idle"
    /\ get_claude_panes_by_process # <<>>
    /\ \E force \in BOOLEAN :
        inflight' = [inflight EXCEPT !.writer =
                        [NoWriter EXCEPT
                            !.cmd = "discover", !.state = "idle", !.force = force,
                            !.todo = [i \in 1..Len(get_claude_panes_by_process) |->
                                         get_claude_panes_by_process[i].id]]]
    /\ pc' = [pc EXCEPT !.writer = "looping"]
    /\ UNCHANGED storeVars

\* one turn of cmd_discover's loop up to set_pane_state's first command: a
\* pane that has a state by now is skipped unless --force
DiscoverNext ==
    /\ pc.writer = "looping"
    /\ inflight.writer.todo # <<>>
    /\ LET pane_id == Head(inflight.writer.todo)
       IN IF has_hop_state(pane_id) /\ ~inflight.writer.force
          THEN /\ inflight' = [inflight EXCEPT !.writer.todo = Tail(@)]
               /\ UNCHANGED <<pc, storeVars>>
          ELSE /\ set_pane_state_first("idle", pane_id)
               /\ inflight' = [inflight EXCEPT !.writer.timestamp = ToStr(now),
                                               !.writer.old = hopTs[pane_id]]
               /\ pc' = [pc EXCEPT !.writer = "state_written"]

\* the second command of the set_pane_state in progress; cmd_register then
\* returns (auto-hop being off), cmd_discover goes on with its loop
WriteTimestamp ==
    /\ pc.writer = "state_written"
    /\ set_pane_state_second(inflight.writer.timestamp, Head(inflight.writer.todo))
    /\ IF inflight.writer.cmd = "register"
       THEN /\ pc' = [pc EXCEPT !.writer = "idle"]
            /\ inflight' = [inflight EXCEPT !.writer = NoWriter]
       ELSE /\ pc' = [pc EXCEPT !.writer = "looping"]
            /\ inflight' = [inflight EXCEPT !.writer.todo = Tail(@)]

\* cmd_discover has been through its panes
DiscoverReturn ==
    /\ pc.writer = "looping"
    /\ inflight.writer.todo = <<>>
    /\ pc' = [pc EXCEPT !.writer = "idle"]
    /\ inflight' = [inflight EXCEPT !.writer = NoWriter]
    /\ UNCHANGED storeVars

\* cmd_clear up to clear_pane_state's first command
ClearBegin ==
    /\ pc.clearer = "idle"
    /\ \E tmux_pane \in alive :
        /\ clear_pane_state_first(tmux_pane)
        /\ inflight' = [inflight EXCEPT !.clearer =
                           [cmd |-> "clear", todo |-> <<tmux_pane>>]]
    /\ pc' = [pc EXCEPT !.clearer = "state_unset"]

\* cmd_prune up to the first command of its first clear_pane_state
PruneBegin ==
    /\ pc.clearer = "idle"
    /\ LET stale == get_stale_panes
       IN /\ stale # <<>>
          /\ clear_pane_state_first(Head(stale).id)
          /\ inflight' = [inflight EXCEPT !.clearer =
                             [cmd |-> "prune",
                              todo |-> [i \in 1..Len(stale) |-> stale[i].id]]]
    /\ pc' = [pc EXCEPT !.clearer = "state_unset"]

\* the second command of the clear_pane_state in progress
UnsetTimestamp ==
    /\ pc.clearer = "state_unset"
    /\ clear_pane_state_second(Head(inflight.clearer.todo))
    /\ IF Tail(inflight.clearer.todo) = <<>>
       THEN /\ pc' = [pc EXCEPT !.clearer = "idle"]
            /\ inflight' = [inflight EXCEPT !.clearer = NoClearer]
       ELSE /\ pc' = [pc EXCEPT !.clearer = "timestamp_unset"]
            /\ inflight' = [inflight EXCEPT !.clearer.todo = Tail(@)]

\* cmd_prune goes on to its next pane
PruneNext ==
    /\ pc.clearer = "timestamp_unset"
    /\ clear_pane_state_first(Head(inflight.clearer.todo))
    /\ pc' = [pc EXCEPT !.clearer = "state_unset"]
    /\ UNCHANGED inflight

\* a third invocation reads all panes with one list-panes
BulkQuery ==
    /\ query' = [done |-> TRUE,
                 validated |-> get_hop_panes(TRUE),
                 stale |-> get_stale_panes,
                 unvalidated |-> get_hop_panes(FALSE)]
    /\ UNCHANGED <<storeVars, envVars, stepVars>>

\* the reader is done with what it read
QueryReturn ==
    /\ query.done
    /\ query' = NotQueried
    /\ UNCHANGED <<storeVars, envVars, stepVars>>

EnvironmentWrites ==
    /\ Tick \/ ProcessStart \/ ProcessExit
    /\ UNCHANGED <<stepVars, query>>

InitWrites ==
    /\ alive = PaneIds
    /\ hopState = [p \in PaneIds |-> ""]
    /\ hopTs = [p \in PaneIds |-> ""]
    /\ running = {}
    /\ now = 0
    /\ current = PaneId(1)
    /\ previous = ""
    /\ hopAuto = <<>>
    /\ hopAutoPriorityOnly = <<>>
    /\ pc = [writer |-> "idle", clearer |-> "idle"]
    /\ inflight = [writer |-> NoWriter, clearer |-> NoClearer]
    /\ last = NoInvocation
    /\ query = NotQueried
    /\ PureIdle
    /\ DialogIdle

NextWrites ==
    /\ \/ query.done /\ QueryReturn
       \/ /\ ~query.done
          /\ \/ BulkQuery
             \/ EnvironmentWrites
             \/ /\ \/ RegisterBegin
                   \/ DiscoverBegin
                   \/ DiscoverNext
                   \/ WriteTimestamp
                   \/ DiscoverReturn
                   \/ ClearBegin
                   \/ PruneBegin
                   \/ UnsetTimestamp
                   \/ PruneNext
                /\ UNCHANGED <<envVars, query>>
    /\ UNCHANGED <<navVars, cfgVars, last, pureVars, dialogVars>>

SpecWrites == InitWrites /\ [][NextWrites]_vars

(* ----------------------- properties of priority.py -------------------- *)
\* the priority tier a pane counts in: its state, or active for a foreign state
TierOf(pane) == IF pane.state \in {"waiting", "idle"} THEN pane.state ELSE "active"

TierRank(tier) == CASE tier = "waiting" -> 0 [] tier = "idle" -> 1 [] OTHER -> 2

TierMembers(panes, tier) == {p \in Range(panes) : TierOf(p) = tier}

\* seq lists each element of the set exactly once
ListsExactly(seq, set) == Range(seq) = set /\ Len(seq) = Cardinality(set)

\* the order of one tier: waiting oldest first, the others newest first
TierOrdered(seq, tier) ==
    \A i, j \in 1..Len(seq) :
        i < j => IF tier = "waiting"
                 THEN seq[i].timestamp <= seq[j].timestamp
                 ELSE seq[i].timestamp >= seq[j].timestamp

TopTier(panes) ==
    IF TierMembers(panes, "waiting") # {} THEN "waiting"
    ELSE IF TierMembers(panes, "idle") # {} THEN "idle"
    ELSE "active"

\* C1: get_cycle_group in mode 'priority' returns exactly the panes of the
\* highest-priority non-empty tier (foreign states counting as active),
\* ordered within the tier, never mixes two tiers, and is empty only for
\* the empty input.
C1_PrioritySingleTier ==
    (called.fn = "get_cycle_group" /\ called.arg = "priority") =>
        /\ ListsExactly(outList, TierMembers(inPanes, TopTier(inPanes)))
        /\ TierOrdered(outList, TopTier(inPanes))
        /\ \A i, j \in 1..Len(outList) : TierOf(outList[i]) = TierOf(outList[j])
        /\ (outList = <<>>) <=> (inPanes = <<>>)

C1_Witness ==
    /\ called.fn = "get_cycle_group" /\ called.arg = "priority"
    /\ Len(inPanes) = 3
    /\ inPanes[1].state = "idle" /\ inPanes[2].state = "paused"
    /\ inPanes[3].state = "idle"
    /\ inPanes[1].timestamp < inPanes[3].timestamp
    /\ outList = <<inPanes[3], inPanes[1]>>

\* C2: get_cycle_group in mode 'flat' returns as many panes as it was given
\* (the sum of the three tier sizes): the waiting panes by ascending
\* timestamp, then the idle ones by descending timestamp, then the active
\* ones by descending timestamp.
C2_FlatOrder ==
    (called.fn = "get_cycle_group" /\ called.arg = "flat") =>
        /\ Len(outList) = Len(inPanes)
        /\ Len(outList) = Cardinality(TierMembers(inPanes, "waiting"))
                          + Cardinality(TierMembers(inPanes, "idle"))
                          + Cardinality(TierMembers(inPanes, "active"))
        /\ Range(outList) = Range(inPanes)
        /\ \A i, j \in 1..Len(outList) :
              i < j =>
                /\ TierRank(TierOf(outList[i])) <= TierRank(TierOf(outList[j]))
                /\ TierOf(outList[i]) = TierOf(outList[j]) =>
                      IF TierOf(outList[i]) = "waiting"
                      THEN outList[i].timestamp <= outList[j].timestamp
                      ELSE outList[i].timestamp >= outList[j].timestamp

C2_Witness ==
    /\ called.fn = "get_cycle_group" /\ called.arg = "flat"
    /\ Len(outList) = 3
    /\ TierOf(outList[1]) = "waiting" /\ TierOf(outList[2]) = "waiting"
    /\ outList[1].timestamp < outList[2].timestamp
    /\ TierOf(outList[3]) = "active"
    /\ outList # inPanes

\* C3: sort_all_panes returns the same sequence as get_cycle_group in mode
\* 'flat', also with equal timestamps and with foreign state values.
C3_SortAllEqualsFlat ==
    called.fn = "sort_all_panes" => outList = get_cycle_group(inPanes, "flat")

C3_Witness ==
    /\ called.fn = "sort_all_panes"
    /\ Len(inPanes) = 3
    /\ inPanes[1].state = "active" /\ inPanes[2].state = "paused"
    /\ inPanes[3].state = "waiting"
    /\ inPanes[1].timestamp = inPanes[2].timestamp
    /\ outList = <<inPanes[3], inPanes[1], inPanes[2]>>

\* C4: sort_within_group returns a permutation of its input, non-decreasing
\* in timestamp for 'waiting' and non-increasing for 'idle' and 'active'.
C4_SortWithinGroup ==
    (called.fn = "sort_within_group" /\ called.arg \in {"waiting", "idle", "active"}) =>
        /\ ListsExactly(outList, Range(inPanes))
        /\ Len(outList) = Len(inPanes)
        /\ TierOrdered(outList, called.arg)

C4_Witness ==
    /\ called.fn = "sort_within_group" /\ called.arg = "idle"
    /\ Len(inPanes) = 3
    /\ inPanes[1].timestamp < inPanes[2].timestamp
    /\ inPanes[2].timestamp < inPanes[3].timestamp
    /\ outList = <<inPanes[3], inPanes[2], inPanes[1]>>

\* how often pane p occurs in seq
Occurrences(seq, p) == Cardinality({i \in 1..Len(seq) : seq[i] = p})

\* C5: group_by_state partitions its input: every pane is in exactly one of
\* the buckets waiting / idle / active, in the bucket of its state when the
\* state is known and in the active bucket otherwise; none is dropped.
C5_GroupPartition ==
    called.fn = "group_by_state" =>
        /\ DOMAIN outGroups = {"waiting", "idle", "active"}
        /\ \A p \in Range(inPanes) :
              /\ Occurrences(outGroups[TierOf(p)], p) = 1
              /\ \A tier \in DOMAIN outGroups \ {TierOf(p)} :
                    Occurrences(outGroups[tier], p) = 0
        /\ \A tier \in DOMAIN outGroups : Range(outGroups[tier]) \subseteq Range(inPanes)
        /\ Len(outGroups["waiting"]) + Len(outGroups["idle"]) + Len(outGroups["active"])
              = Len(inPanes)

C5_Witness ==
    /\ called.fn = "group_by_state"
    /\ Len(inPanes) = 3
    /\ inPanes[1].state = "paused" /\ inPanes[2].state = "waiting"
    /\ inPanes[3].state = "active"
    /\ outGroups["active"] = <<inPanes[1], inPanes[3]>>
    /\ outGroups["waiting"] = <<inPanes[2]>>

(* ----------------------- properties of has_active_dialog -------------- *)
\* positions a..b of text are one whole line (between line ends)
WholeLine(text, a, b) ==
    /\ a <= b
    /\ a = 1 \/ text[a - 1] = NEWLINE
    /\ b = Len(text) \/ text[b + 1] = NEWLINE
    /\ \A k \in a..b : text[k] # NEWLINE

\* positions a..b of text are a separator line: separator glyphs in one run,
\* with nothing but blanks before and after the run
SeparatorLineAt(text, a, b) ==
    /\ WholeLine(text, a, b)
    /\ \E c, d \in a..b :
          /\ c <= d
          /\ \A k \in a..b : IF k \in c..d THEN text[k] = STATUS_SEPARATOR
                                            ELSE text[k] = " "

HasSeparatorLine(text) ==
    \E a, b \in 1..Len(text) : SeparatorLineAt(text, a, b)

OnlyBlank(text) == \A k \in 1..Len(text) : text[k] \in Whitespace

\* C10: has_active_dialog returns true for the empty string, for content of
\* blank lines only, and for content without a separator line, whatever
\* other lines (prompt lines included) the content holds.
C10_NoSeparatorMeansActive ==
    (dialog # <<>> /\ (OnlyBlank(content) \/ ~HasSeparatorLine(content))) =>
        dialog[1] = TRUE

C10_Witness ==
    /\ dialog = <<TRUE>>
    /\ content = <<"x", NEWLINE, PROMPT_CHAR, " ", "x">>

\* positions a..b of text are a whole line that holds something else than
\* blanks and is not a separator line
ContentLineAt(text, a, b) ==
    /\ WholeLine(text, a, b)
    /\ \E k \in a..b : text[k] # " "
    /\ ~SeparatorLineAt(text, a, b)

\* the separator line at a..b is the bottom-most one
BottomSeparatorAt(text, a, b) ==
    /\ SeparatorLineAt(text, a, b)
    /\ ~ \E e, f \in (b + 1)..Len(text) : SeparatorLineAt(text, e, f)

\* the content line at c..d is the nearest one above position a
NearestContentAbove(text, c, d, a) ==
    /\ ContentLineAt(text, c, d)
    /\ d < a
    /\ ~ \E e, f \in (d + 1)..(a - 1) : ContentLineAt(text, e, f)

\* the line at c..d, without the blanks around it, is the prompt glyph alone
\* or the prompt glyph, a space and further text
PromptLineAt(text, c, d) ==
    LET first == CHOOSE k \in c..d : text[k] # " " /\ \A j \in c..(k - 1) : text[j] = " "
        final == CHOOSE k \in c..d : text[k] # " " /\ \A j \in (k + 1)..d : text[j] = " "
    IN /\ text[first] = PROMPT_CHAR
       /\ first = final \/ text[first + 1] = " "

\* C11: when the content has a separator line and a non-blank, non-separator
\* line above the bottom-most separator, has_active_dialog returns false
\* exactly when the nearest such line is the prompt glyph, alone or followed
\* by a space and text; the lines below that separator and the lines above
\* the nearest line have no say.
C11_DecisiveLine ==
    dialog # <<>> =>
        \A a, b \in 1..Len(content) :
            BottomSeparatorAt(content, a, b) =>
                \A c, d \in 1..(a - 1) :
                    NearestContentAbove(content, c, d, a) =>
                        (dialog[1] = FALSE <=> PromptLineAt(content, c, d))

\* a prompt line with text, under another line and above the separator
C11_Witness ==
    /\ dialog = <<FALSE>>
    /\ content = <<"x", NEWLINE, PROMPT_CHAR, " ", "x", NEWLINE, STATUS_SEPARATOR>>

\* C30: when the content has a separator line and every line above the
\* bottom-most separator is blank or a separator line itself,
\* has_active_dialog returns true
C30_NothingAboveSeparator ==
    dialog # <<>> =>
        \A a, b \in 1..Len(content) :
            (/\ BottomSeparatorAt(content, a, b)
             /\ ~ \E c, d \in 1..(a - 1) : ContentLineAt(content, c, d)) =>
                dialog[1] = TRUE

\* a separator, a blank line and the bottom-most separator above the status
\* line
C30_Witness ==
    /\ dialog = <<TRUE>>
    /\ content = <<STATUS_SEPARATOR, NEWLINE, " ", NEWLINE, STATUS_SEPARATOR,
                   NEWLINE, "x">>

(* ----------------------- properties of the reconciliation ------------- *)
Ids(panes) == {panes[i].id : i \in 1..Len(panes)}

\* the panes with a declared state
Declared == {p \in alive : hopState[p] # ""}

\* C7: on one snapshot of the store and one running-id set, the validated
\* set is the declared-state records whose id is running, the stale set the
\* declared-state records whose id is not, and the two are disjoint and
\* together make up the unvalidated set.
C7_ValidatedStalePartition ==
    query.done =>
        /\ Ids(query.unvalidated) = Declared
        /\ Len(query.unvalidated) = Cardinality(Declared)
        /\ Range(query.validated) = {r \in Range(query.unvalidated) : r.id \in running}
        /\ Range(query.stale) = {r \in Range(query.unvalidated) : r.id \notin running}
        /\ Range(query.validated) \cap Range(query.stale) = {}
        /\ Range(query.validated) \cup Range(query.stale) = Range(query.unvalidated)
        /\ Len(query.validated) + Len(query.stale) = Len(query.unvalidated)

C7_Witness ==
    /\ query.done
    /\ Ids(query.validated) = {PaneId(1)}
    /\ Ids(query.stale) = {PaneId(2)}
    /\ hopState[PaneId(2)] = "paused"

\* C9: a pane whose state option is unset or empty is in none of the lists
\* (validated, unvalidated, stale), whatever its timestamp option holds and
\* whether or not its process runs; so a pane is in none of them after
\* clear_pane_state.
C9_UndeclaredAbsent ==
    query.done =>
        /\ \A p \in PaneIds :
              hopState[p] = "" =>
                  p \notin Ids(query.validated) \cup Ids(query.unvalidated)
                           \cup Ids(query.stale)
        /\ last.cmd = "clear_pane_state" =>
              last.pane \notin Ids(query.validated) \cup Ids(query.unvalidated)
                               \cup Ids(query.stale)

C9_Witness ==
    /\ query.done
    /\ last.cmd = "clear_pane_state" /\ last.pane = PaneId(1)
    /\ PaneId(1) \in running
    /\ hopState[PaneId(2)] = "" /\ hopTs[PaneId(2)] = ToStr(MaxTime)
    /\ PaneId(2) \in running
    /\ query.unvalidated = <<>>

\* C15: a record whose timestamp or window index does not parse is still in
\* the result of get_hop_panes, with 0 in place of the field that does not
\* parse and the other field kept; the other records are as they would be.
C15_OnlyBadFieldZeroed ==
    query.done =>
        \A i \in 1..NumPanes :
            hopState[PaneId(i)] # "" =>
                \E k \in 1..Len(query.unvalidated) :
                    /\ query.unvalidated[k].id = PaneId(i)
                    /\ query.unvalidated[k].window = WindowOf(i)
                    /\ query.unvalidated[k].timestamp =
                           IF ParseInt(hopTs[PaneId(i)]).ok
                           THEN ParseInt(hopTs[PaneId(i)]).value ELSE 0

(* ----------------------- properties of the commands ------------------- *)
\* C6: when cycle finds a non-empty group, a current pane at position i of
\* the group is followed by the pane at position (i + 1) mod len(group), the
\* last pane by the first; a current pane that is not in the group is
\* followed by the first pane of the group.  Cycle navigates to that pane.
C6_CycleNext ==
    (last.cmd = "cycle" /\ last.in_tmux /\ last.group # <<>>) =>
        LET group == last.group
            n == Len(group)
        IN /\ \A i \in 1..n :
                 group[i] = last.cur =>
                     last.target = IF i = n THEN group[1] ELSE group[i + 1]
           /\ (\A i \in 1..n : group[i] # last.cur) => last.target = group[1]
           /\ current = last.target

\* cycle wraps from the last pane of a group of two to the first
C6_Witness ==
    /\ last.cmd = "cycle"
    /\ Len(last.group) = 2
    /\ last.cur = last.group[2]
    /\ last.target = last.group[1]
    /\ current = last.group[1]
    /\ previous = last.group[2]

\* C8: the pane cycle navigates to, and every pane list and picker-data
\* print, has an id the process registry reported as running an interactive
\* claude in that invocation.
C8_NeverStale ==
    /\ (last.cmd = "cycle" /\ last.target # "") => last.target \in last.reported
    /\ last.cmd \in {"list", "picker-data"} => Range(last.listed) \subseteq last.reported

\* C16: an invocation of register, cycle, list, picker-data, prune or discover
\* asks the process registry at most once, and what it lists, prunes, registers
\* or hops over is decided by the one set of running ids that query returned:
\* it lists exactly the declared panes of the set, it prunes only panes outside
\* the set and leaves no declared pane outside it, it registers only panes of
\* the set, and it hops only when no other declared pane of the set has a tier
\* as high as the new state's.
C16_OneRegistryQuery ==
    (last.in_tmux /\ last.cmd \in {"register", "cycle", "list", "picker-data",
                                    "prune", "discover"}) =>
        /\ last.queries <= 1
        /\ last.cmd \in {"list", "picker-data"} =>
               /\ last.queries = 1
               /\ Range(last.listed) = Declared \cap last.reported
        /\ last.cmd \in {"cycle", "prune"} =>
               /\ last.queries = 1
               /\ last.pruned \cap last.reported = {}
               /\ IF last.dry_run THEN last.pruned = Declared \ last.reported
                  ELSE /\ Declared \subseteq last.reported
                       /\ last.pruned \cap Declared = {}
        /\ last.cmd = "discover" =>
               /\ last.queries = 1
               /\ last.registered \subseteq last.reported
               /\ last.reported \ last.registered \subseteq Declared
        /\ (last.cmd = "register" /\ last.queries = 1 /\ last.target # "") =>
               \A p \in (Declared \cap last.reported) \ {last.pane} :
                   PriorityGet(hopState[p], 2) > PriorityGet(last.arg, 2)

C16_Witness ==
    /\ last.cmd = "cycle"
    /\ last.in_tmux
    /\ last.queries = 1
    /\ last.pruned # {}
    /\ last.reported # {}
    /\ last.target # ""

\* C19: outside tmux, register and clear return 0 and cycle, back, picker,
\* list, discover and prune return 1, and the invocation neither writes a pane
\* option or the previous-pane pointer nor moves the focus nor asks the registry
C19_NotInTmux ==
    [][(last.cmd = "none" /\ last'.cmd # "none" /\ ~last'.in_tmux) =>
          /\ last'.cmd \in {"register", "clear"} => last'.rc = 0
          /\ last'.cmd \in {"cycle", "back", "picker", "list", "discover", "prune"}
                => last'.rc = 1
          /\ hopState' = hopState
          /\ hopTs' = hopTs
          /\ previous' = previous
          /\ current' = current
          /\ last'.queries = 0
          /\ last'.target = ""]_vars

C19_Witness ==
    /\ last.cmd = "back"
    /\ ~last.in_tmux
    /\ last.rc = 1
    /\ previous # ""
    /\ previous # current
    /\ \E p \in alive : hopState[p] # "" /\ p \notin running

\* a step that is a whole prune, or a cycle with its pruning, inside tmux
PruneStep ==
    /\ last.cmd = "none"
    /\ last'.cmd \in {"prune", "cycle"}
    /\ last'.in_tmux
    /\ ~last'.dry_run

\* C21: a prune, or the pruning of a cycle, that runs with no other writer
\* unsets the state and the timestamp of exactly the panes that had a state
\* and were not in the running set it asked for; every pane of the running set
\* keeps both options, and once it is over no pane with a state is left
\* outside the running set
C21_PruneExactlyStale ==
    [][PruneStep =>
          /\ last'.reported = running
          /\ last'.pruned = {p \in alive : hopState[p] # ""} \ running
          /\ \A p \in alive :
                IF p \in last'.pruned
                THEN hopState'[p] = "" /\ hopTs'[p] = ""
                ELSE hopState'[p] = hopState[p] /\ hopTs'[p] = hopTs[p]
          /\ {p \in alive : hopState'[p] # ""} \ running' = {}]_vars

C21_Witness ==
    /\ last.cmd \in {"prune", "cycle"}
    /\ last.in_tmux
    /\ ~last.dry_run
    /\ last.pruned # {}
    /\ \A p \in last.pruned : hopState[p] = "" /\ hopTs[p] = ""
    /\ \E p \in last.reported : hopState[p] # "" /\ hopTs[p] # ""

\* the priority of a stored state: unknown states rank with "active"
StatePriority(state) ==
    IF state = "waiting" THEN 0 ELSE IF state = "idle" THEN 1 ELSE 2

\* the auto-hop trigger set that is configured
TriggerSet == parse_state_set(hopAuto)

\* priority-only gating is on unless @hop-auto-priority-only says off
PriorityOnly == hopAutoPriorityOnly # <<"OFF">>

\* a step that is a register inside tmux that hopped or touched the navigation
RegisterNavigates ==
    /\ last.cmd = "none"
    /\ last'.cmd = "register"
    /\ last'.target # "" \/ current' # current \/ previous' # previous

\* C22: a register navigates only to its own pane, only when the new state is
\* in the trigger set and, with priority-only gating on, no other pane that
\* has a state and runs claude has a priority equal to or higher than the new
\* state's, unknown states ranking with active; with an empty trigger set it
\* neither navigates nor writes the previous-pane pointer
C22_AutoHopOnlyIf ==
    [][RegisterNavigates =>
          /\ last'.in_tmux
          /\ TriggerSet # {}
          /\ last'.arg \in TriggerSet
          /\ last'.pane # ""
          /\ current' = last'.pane
          /\ previous' = IF current # last'.pane THEN current ELSE previous
          /\ PriorityOnly =>
                \A p \in running \ {last'.pane} :
                    hopState'[p] # "" =>
                        StatePriority(hopState'[p]) > StatePriority(last'.arg)]_vars

\* a hop took place past a running pane of unknown state and a lower tier
C22_Witness ==
    /\ last.cmd = "register"
    /\ last.target # ""
    /\ last.arg = "idle"
    /\ current = last.pane
    /\ previous # ""
    /\ PriorityOnly
    /\ \E p \in running \ {last.pane} : hopState[p] = "paused"

\* the current pane and the recorded previous pane both exist and differ
BackRoundTripCase(cur, prev) ==
    /\ cur \in alive
    /\ prev \in alive
    /\ cur # prev

\* C23: when the current pane C and the recorded previous pane P both exist and
\* differ, back navigates to P and sets the pointer to C, and a second back
\* from there returns to C with the pointer at P again
C23_BackRoundTrip ==
    /\ [][(last.cmd = "none" /\ last'.cmd = "back" /\ last'.in_tmux
              /\ BackRoundTripCase(current, previous)) =>
             /\ current' = previous
             /\ previous' = current
             /\ last'.rc = 0]_vars
    /\ [](BackRoundTripCase(current, previous) =>
             LET once == back_outcome(current, previous)
                 twice == back_outcome(once.current, once.previous)
             IN /\ once.current = previous /\ once.previous = current
                /\ twice.current = current /\ twice.previous = previous
                /\ twice.rc = 0)

\* a back has just gone from one existing pane to another
C23_Witness ==
    /\ last.cmd = "back"
    /\ last.in_tmux
    /\ last.rc = 0
    /\ last.cur \in alive
    /\ last.target \in alive
    /\ last.cur # last.target
    /\ current = last.target
    /\ previous = last.cur

\* C26: when switch_to_pane fails because the pane does not exist, nothing is
\* navigated to and @hop-previous-pane holds what it held before the call
C26_FailedSwitchKeepsPointer ==
    [][(last.cmd = "none" /\ last'.cmd = "switch" /\ last'.in_tmux
          /\ last'.arg \notin alive) =>
         /\ last'.rc = 1
         /\ current' = current
         /\ previous' = previous]_vars

\* a step that is a whole discover inside tmux that writes and is not forced
DiscoverStep ==
    /\ last.cmd = "none"
    /\ last'.cmd = "discover"
    /\ last'.in_tmux
    /\ ~last'.force
    /\ ~last'.dry_run

\* C24: discover without --force sets state "idle" on exactly the running
\* panes that have no state and leaves both options of every other pane as
\* they were; right after it no running pane is left without a state, so a
\* second discover has no pane to register
C24_DiscoverIdempotent ==
    /\ [][DiscoverStep =>
             /\ last'.registered = {p \in running : hopState[p] = ""}
             /\ \A p \in alive :
                   IF p \in running /\ hopState[p] = ""
                   THEN hopState'[p] = "idle" /\ hopTs'[p] = ToStr(now)
                   ELSE hopState'[p] = hopState[p] /\ hopTs'[p] = hopTs[p]]_vars
    /\ []((last.cmd = "discover" /\ last.in_tmux /\ ~last.force /\ ~last.dry_run) =>
             /\ {p \in running : hopState[p] = ""} = {}
             /\ discover_chosen(FALSE) = <<>>)

\* a discover registered one pane and passed over one registered before
C24_Witness ==
    /\ last.cmd = "discover"
    /\ last.in_tmux
    /\ ~last.force
    /\ ~last.dry_run
    /\ last.registered # {}
    /\ \A p \in last.registered : hopState[p] = "idle"
    /\ \E p \in running \ last.registered : hopState[p] = "waiting"

\* C25: prune --dry-run and discover --dry-run write nothing: the state and
\* timestamp of every pane, the previous-pane pointer and the auto-hop options
\* are after the invocation what they were before
C25_DryRunWritesNothing ==
    [][(last.cmd = "none" /\ last'.cmd \in {"prune", "discover"} /\ last'.dry_run) =>
          /\ hopState' = hopState
          /\ hopTs' = hopTs
          /\ previous' = previous
          /\ hopAuto' = hopAuto
          /\ hopAutoPriorityOnly' = hopAutoPriorityOnly]_vars

\* a prune --dry-run named a stale pane and left its options as they were
C25_Witness ==
    /\ last.cmd = "prune"
    /\ last.dry_run
    /\ \E p \in last.pruned : hopState[p] # "" /\ hopTs[p] # "" /\ p \notin running

\* a step changes the stored state of pane p to a value that is not unset
StateWritten(p) == hopState'[p] # hopState[p] /\ hopState'[p] # ""

\* C27: from a store with no state, whatever register, discover, validate,
\* clear, prune, cycle and back do, every stored state is waiting, idle,
\* active or unset; a state is set only by a register of that state on that
\* pane, by a discover (idle) or by the validator turning waiting into idle,
\* and is unset only by clear, prune and cycle
C27_OnlyKnownStates ==
    /\ [](\A p \in alive : hopState[p] \in {"", "waiting", "idle", "active"})
    /\ [][\A p \in alive :
             /\ StateWritten(p) =>
                   \/ /\ last'.cmd = "register"
                      /\ hopState'[p] = last'.arg
                      /\ p = IF last'.pane # "" THEN last'.pane ELSE current
                   \/ /\ last'.cmd = "discover"
                      /\ hopState'[p] = "idle"
                      /\ p \in last'.registered
                   \/ /\ last'.cmd = "validate"
                      /\ hopState[p] = "waiting"
                      /\ hopState'[p] = "idle"
             /\ (hopState[p] # "" /\ hopState'[p] = "") =>
                   last'.cmd \in {"clear", "prune", "cycle"}]_vars

\* the validator has turned a waiting pane into an idle one
C27_Witness ==
    /\ last.cmd = "validate"
    /\ last.flipped # {}
    /\ \A p \in last.flipped : hopState[p] = "idle" /\ hopTs[p] = ToStr(now)
    /\ \E p \in alive \ last.flipped : hopState[p] \in {"waiting", "active"}

\* C28: while panes, states and timestamps stay as they are, k consecutive
\* cycle invocations in one mode, k being the size of the cycle group, go to
\* every pane of the group exactly once, wherever the focus was at first:
\* the panes gone to so far are panes of the group and no two are the same,
\* and after k invocations they are the whole group
C28_CycleVisitsAll ==
    (last.cmd = "cycle" /\ last.group # <<>>) =>
        LET k == Len(last.group)
            n == IF Len(inflight.visited) < k THEN Len(inflight.visited) ELSE k
        IN /\ \A i \in 1..n : inflight.visited[i] \in Range(last.group)
           /\ \A i, j \in 1..n : i # j => inflight.visited[i] # inflight.visited[j]
           /\ Len(inflight.visited) >= k =>
                 {inflight.visited[i] : i \in 1..k} = Range(last.group)
           /\ current = inflight.visited[Len(inflight.visited)]

\* as many cycles as the group has panes have gone to each pane of a group
\* that holds every pane
C28_Witness ==
    /\ last.cmd = "cycle"
    /\ Len(last.group) = NumPanes
    /\ Len(inflight.visited) = NumPanes
    /\ \A i \in 1..NumPanes : \E j \in 1..NumPanes : inflight.visited[j] = last.group[i]

\* C29: however the pruning of a cycle interleaves with registers and with
\* processes starting, it never unsets the state of a pane in which an
\* interactive claude is running at the moment of the unset
C29_PruneSparesRunning ==
    [][\A p \in alive :
          (pc = "pruning" /\ hopState[p] # "" /\ hopState'[p] = "") =>
              p \notin running]_vars

(* ----------------------- properties of the two writes ----------------- *)
Quiescent == pc.writer = "idle" /\ pc.clearer = "idle"

\* C17: once every register, discover, clear and prune invocation has
\* completed, each pane has both its state and its timestamp option set, or
\* neither
C17_BothOrNeither ==
    Quiescent =>
        \A p \in alive : hopState[p] = "" <=> hopTs[p] = ""

\* the timestamp a record gets from the text of @hop-timestamp
StampValue(text) == IF text = "" THEN 0 ELSE ParseInt(text).value

\* a bulk query has run while a register is between its two writes
ReadBetweenWrites ==
    /\ query.done
    /\ pc.writer = "state_written"
    /\ inflight.writer.cmd = "register"

\* C18: a bulk query that runs between the two writes of a register observes
\* the pane half-updated: the record it returns for the pane carries the new
\* state with the timestamp the pane had before the register (0 when it had
\* none, or when a clear has unset it meanwhile), never the new timestamp
\* unless that equals the previous one
C18_HalfUpdatedRead ==
    ReadBetweenWrites =>
        \A i \in 1..Len(query.unvalidated) :
            query.unvalidated[i].id = Head(inflight.writer.todo) =>
                /\ query.unvalidated[i].state = inflight.writer.state
                /\ query.unvalidated[i].timestamp
                       \in {0, StampValue(inflight.writer.old)}

C18_Witness ==
    /\ ReadBetweenWrites
    /\ inflight.writer.old # ""
    /\ inflight.writer.old # inflight.writer.timestamp
    /\ \E i \in 1..Len(query.unvalidated) :
          /\ query.unvalidated[i].id = Head(inflight.writer.todo)
          /\ query.unvalidated[i].state = inflight.writer.state
          /\ query.unvalidated[i].timestamp = StampValue(inflight.writer.old)
          /\ query.unvalidated[i].timestamp # StampValue(inflight.writer.timestamp)

(* ----------------------- properties of validate_waiting_panes --------- *)
\* the pane options of pane_id are what they were when validation began
StoreUntouched(pane_id) ==
    /\ hopState[pane_id] = inflight.hop_state[pane_id]
    /\ hopTs[pane_id] = inflight.hop_timestamp[pane_id]

\* the turns of the loop made so far leave one entry each, and while panes
\* remain the next turn can be made
LoopGoesOn ==
    /\ Len(inflight.log) = inflight.i - 1
    /\ (pc = "validating" /\ inflight.i <= Len(inflight.panes)) => ENABLED ValidateStep

\* C12: validate_waiting_panes changes neither the record nor the options of
\* a pane whose state is not "waiting" or whose age is below the threshold,
\* and does not capture its content.
C12_YoungOrNotWaitingUntouched ==
    pc # "idle" =>
        \A j \in 1..Len(inflight.given) :
            LET pane == inflight.given[j]
            IN (pane.state # "waiting"
                  \/ inflight.now - pane.timestamp < WAITING_STALE_THRESHOLD) =>
                   /\ inflight.panes[j] = pane
                   /\ StoreUntouched(pane.id)
                   /\ j <= Len(inflight.log) => ~inflight.log[j].captured

\* a waiting pane two seconds old is left alone while an older one is flipped
C12_Witness ==
    /\ pc = "validated"
    /\ Len(inflight.given) = 2
    /\ inflight.given[1].state = "waiting"
    /\ inflight.now - inflight.given[1].timestamp = WAITING_STALE_THRESHOLD - 1
    /\ ~inflight.log[1].captured
    /\ inflight.log[2].wrote /\ inflight.log[2].raised = "none"
    /\ hopState[inflight.given[1].id] = "waiting"

\* C13: after validate_waiting_panes flipped a pane (old enough, content
\* captured, no dialog, write succeeded) the options hold state "idle" and
\* the record matches them: state "idle", timestamp the one written.
C13_RecordMatchesStore ==
    pc # "idle" =>
        \A j \in 1..Len(inflight.log) :
            (inflight.log[j].wrote /\ inflight.log[j].raised = "none") =>
                /\ hopState[inflight.panes[j].id] = "idle"
                /\ inflight.panes[j].state = "idle"
                /\ ToStr(inflight.panes[j].timestamp) = hopTs[inflight.panes[j].id]

\* C14: when the capture of a waiting pane fails or yields nothing, the
\* record and the options of that pane stay as they were, and the loop goes
\* on with the panes that remain.
C14_EmptyCaptureLeavesPane ==
    pc # "idle" =>
        /\ \A j \in 1..Len(inflight.log) :
               (inflight.log[j].captured
                  /\ (~inflight.log[j].ok \/ inflight.log[j].content = <<>>)) =>
                   /\ inflight.panes[j] = inflight.given[j]
                   /\ StoreUntouched(inflight.given[j].id)
                   /\ ~inflight.log[j].wrote
        /\ LoopGoesOn

\* the capture of the first pane failed; the second pane was flipped all the same
C14_Witness ==
    /\ pc = "validated"
    /\ Len(inflight.given) = 2
    /\ inflight.log[1].captured /\ ~inflight.log[1].ok
    /\ inflight.panes[1].state = "waiting"
    /\ hopState[inflight.given[1].id] = "waiting"
    /\ inflight.log[2].wrote /\ inflight.log[2].raised = "none"
    /\ inflight.panes[2].state = "idle"

(* ----------------------- properties of failing writes ------------------ *)
\* C20: a write that fails while validating or pruning is swallowed.  In
\* validate_waiting_panes the record of the pane whose write failed is the one
\* that was passed in (state "waiting", its original timestamp), the loop has
\* a next turn while panes remain, and on return every pane has had its turn.
\* In cmd_prune every stale pane has its turn whatever failed before it, a
\* pane whose commands did not fail has lost both options, and 0 is returned.
C20_WriteFailureSwallowed ==
    /\ pc \in {"validating", "validated"} =>
          /\ \A j \in 1..Len(inflight.log) :
                inflight.log[j].raised # "none" =>
                    /\ inflight.panes[j] = inflight.given[j]
                    /\ inflight.panes[j].state = "waiting"
          /\ LoopGoesOn
          /\ pc = "validated" => Len(inflight.log) = Len(inflight.given)
    /\ pc \in {"pruning", "pruned"} =>
          /\ Len(inflight.log) = inflight.i - 1
          /\ (pc = "pruning" /\ inflight.i <= Len(inflight.stale))
                => ENABLED PruneLoopStep
          /\ \A j \in 1..Len(inflight.log) :
                LET pane_id == inflight.stale[j].id
                IN /\ hopState[pane_id] =
                        IF "state" \in inflight.log[j]
                        THEN inflight.hop_state[pane_id] ELSE ""
                   /\ hopTs[pane_id] =
                        IF "timestamp" \in inflight.log[j]
                        THEN inflight.hop_timestamp[pane_id] ELSE ""
          /\ pc = "pruned" =>
                /\ Len(inflight.log) = Len(inflight.stale)
                /\ inflight.rc = 0

\* a validation has returned whose first write failed, leaving the record
\* "waiting", and whose second succeeded
C20_Witness ==
    /\ pc = "validated"
    /\ Len(inflight.log) = 2
    /\ inflight.log[1].raised # "none"
    /\ inflight.panes[1].state = "waiting"
    /\ inflight.log[2].wrote
    /\ inflight.log[2].raised = "none"
    /\ inflight.panes[2].state = "idle"

=============================================================================
